---- MODULE Spec2Model ----
(***************************************************************************)
(* Model of the Smart_Eval answer-scoring pipeline.                        *)
(*                                                                         *)
(* Scores and marks are fixed-point integers in hundredths of a mark       *)
(* (1225 stands for 12.25).  The inputs are multiples of 25 (quarter       *)
(* marks): these are exactly representable as binary floats, so Python's   *)
(* float arithmetic and round() agree with the integer arithmetic below.   *)
(*                                                                         *)
(* Texts handled by parse_ai_response are sequences of tokens; the Python  *)
(* string is the concatenation of the tokens.                              *)
(*                                                                         *)
(* Each part of the program has its own specification over the shared      *)
(* variables: SpecMode, SpecParse, SpecGrade, Spec (the evaluation page),  *)
(* SpecOcr, SpecLogin, SpecSession, SpecFeedback, SpecFeedbackRace (two     *)
(* sessions saving feedback at once), SpecGf and SpecDd.  A specification  *)
(* pins the variables of the other parts.                                  *)
(***************************************************************************)
EXTENDS Integers, Sequences, FiniteSets, TLC

\* ------------------------------------------------------------------ bounds
\* max_marks ranges over the whole marks -MinWholeMarks .. MaxWholeMarks
MaxWholeMarks == 10
MinWholeMarks == 2
\* original_score ranges over the quarter marks from -ScoreMargin quarters
\* to ScoreMargin quarters above MaxWholeMarks
ScoreMargin == 8
\* a model response is put together from at most MaxSegments pieces
MaxSegments == 3
\* detect_diagrams counts at most MaxDiagrams diagrams
MaxDiagrams == 1
\* the teacher starts at most MaxRuns evaluations
MaxRuns == 2
\* extract_text_from_images is given at most MaxImages page images
MaxImages == 2
\* register_user and save_feedback are called while the clock is below MaxClock
MaxClock == 3
\* detect_diagrams is given at most MaxDiagramPages pages, each with at most
\* MaxContours external contours
MaxDiagramPages == 2
MaxContours == 2
\* generate_feedback is called on results with up to MaxQuestions questions
MaxQuestions == 2
MaxPartialWrite == 30

\* ------------------------------------------------------------- state
VARIABLES
    am_args,      \* arguments of the current apply_evaluation_mode call
    am_result,    \* its return value, None before the call returned
    raw_text,     \* argument of the current parse_ai_response call
    parsed,       \* its outcome, None before the call ended
    g_args,       \* arguments of the current grade_answers call
    g_result,     \* its outcome, None before the call ended
    pc,           \* the evaluation page: "idle", or the pipeline step to run next
    run,          \* the inputs, locals and trace of the current or last run
    runs,         \* number of evaluation runs started
    session_state,\* st.session_state
    scores,       \* the files outputs/scores/<usn>.json, None when absent
    ocr_args,     \* arguments of the current extract_text_from_images call
    ocr_pages,    \* what the OCR model did for each page requested so far
    all_extracted_text, \* the local list of extract_text_from_images
    ocr_result,   \* None before the call returned, then [ret |-> the returned text]
    users,        \* the file data/users.json: username -> record, None when absent
    registered,   \* username -> the plaintext password of its registration
    login_ret,    \* the last register_user / authenticate_user call and its result
    now,          \* datetime.now(), a counter
    last_ops,     \* the last two script runs or callbacks of the browser session
    feedback_file,\* the file data/feedback.json
    fb_log,       \* the save_feedback calls made so far, with their results
    fb_calls,     \* the save_feedback call of each concurrent session
    gf_args,      \* argument of the current generate_feedback call
    gf_result,    \* its return value, None before the call returned
    dd_args,      \* the rendered pages of the current detect_diagrams call
    dd_result     \* its return value, None before the call returned

calls == <<am_args, am_result, raw_text, parsed, g_args, g_result>>
page == <<pc, run, runs, session_state, scores>>
ocr_vars == <<ocr_args, ocr_pages, all_extracted_text, ocr_result>>
login_vars == <<users, registered, login_ret>>
feedback_vars == <<feedback_file, fb_log, fb_calls>>
gf_vars == <<gf_args, gf_result>>
dd_vars == <<dd_args, dd_result>>
others == <<ocr_vars, login_vars, now, last_ops, feedback_vars, gf_vars, dd_vars>>
vars == <<am_args, am_result, raw_text, parsed, g_args, g_result,
          pc, run, runs, session_state, scores,
          ocr_args, ocr_pages, all_extracted_text, ocr_result,
          users, registered, login_ret, now, last_ops,
          feedback_file, fb_log, fb_calls, gf_args, gf_result, dd_args, dd_result>>

None == <<>>

\* the single calls of sections evaluation_mode.py and answer_grader.py
\* take no part in the other specifications
CallsUnused ==
    /\ am_args = None
    /\ am_result = None
    /\ raw_text = <<>>
    /\ parsed = None
    /\ g_args = None
    /\ g_result = None

OcrUnused ==
    /\ ocr_args = None
    /\ ocr_pages = <<>>
    /\ all_extracted_text = <<>>
    /\ ocr_result = None

LoginUnused ==
    /\ users = None
    /\ registered = None
    /\ login_ret = None

FeedbackUnused ==
    /\ feedback_file = None
    /\ fb_log = <<>>
    /\ fb_calls = None

GfUnused == gf_args = None /\ gf_result = None

DdUnused == dd_args = None /\ dd_result = None

ClockUnused == now = 0

SessionUnused == last_ops = None

OthersUnused ==
    /\ OcrUnused
    /\ LoginUnused
    /\ ClockUnused
    /\ SessionUnused
    /\ FeedbackUnused
    /\ GfUnused
    /\ DdUnused

\* the evaluation page takes no part in the specifications of single calls
PageUnused ==
    /\ pc = "unused"
    /\ run = None
    /\ runs = 0
    /\ session_state = None
    /\ scores = None

\* ------------------------------------------------- evaluation_mode.py
Hundred == 100
LenientThreshold == 35
StrictThreshold == 80
Bump == 500

EvalModes == {"Lenient", "Strict", "Moderate"}
\* the options of the "Evaluation Mode" radio of the evaluation page
UiModes == {"Reasonable", "Easygoing", "Stringent"}
Modes == EvalModes \cup UiModes

Min(a, b) == IF a <= b THEN a ELSE b
Max(a, b) == IF a >= b THEN a ELSE b

\* (original_score / max_marks) * 100 < t, for max_marks # 0
PercentageBelow(original_score, max_marks, t) ==
    IF max_marks > 0 THEN original_score * Hundred < t * max_marks
                     ELSE original_score * Hundred > t * max_marks

\* (original_score / max_marks) * 100 > t, for max_marks # 0
PercentageAbove(original_score, max_marks, t) ==
    IF max_marks > 0 THEN original_score * Hundred > t * max_marks
                     ELSE original_score * Hundred < t * max_marks

\* round(x, 1) of Python on a value in hundredths that is a multiple of 25
\* (a float holding it exactly): to the nearest tenth, a tie going to the
\* even tenth
Round1(h) ==
    LET q == h \div 10
        r == h % 10
    IN  IF r < 5 THEN 10 * q
        ELSE IF r > 5 THEN 10 * (q + 1)
        ELSE IF q % 2 = 0 THEN 10 * q ELSE 10 * (q + 1)

apply_evaluation_mode_lenient_le(original_score, max_marks, mode) ==
    IF max_marks = 0 THEN <<original_score, original_score, mode>>
    ELSE LET adjusted_score ==
                 IF mode = "Lenient"
                 THEN IF ~PercentageAbove(original_score, max_marks, LenientThreshold)
                      THEN Min(original_score + Bump, max_marks)
                      ELSE original_score
                 ELSE IF mode = "Strict"
                 THEN IF PercentageAbove(original_score, max_marks, StrictThreshold)
                      THEN Max(original_score - Bump, 0)
                      ELSE original_score
                 ELSE original_score
         IN  <<Round1(adjusted_score), Round1(original_score), mode>>

apply_evaluation_mode_strict_nofloor(original_score, max_marks, mode) ==
    IF max_marks = 0 THEN <<original_score, original_score, mode>>
    ELSE LET adjusted_score ==
                 IF mode = "Lenient"
                 THEN IF PercentageBelow(original_score, max_marks, LenientThreshold)
                      THEN Min(original_score + Bump, max_marks)
                      ELSE original_score
                 ELSE IF mode = "Strict"
                 THEN IF PercentageAbove(original_score, max_marks, StrictThreshold)
                      THEN original_score - Bump
                      ELSE original_score
                 ELSE original_score
         IN  <<Round1(adjusted_score), Round1(original_score), mode>>

apply_evaluation_mode_moderate_bumps(original_score, max_marks, mode) ==
    IF max_marks = 0 THEN <<original_score, original_score, mode>>
    ELSE LET adjusted_score ==
                 IF mode = "Strict"
                 THEN IF PercentageAbove(original_score, max_marks, StrictThreshold)
                      THEN Max(original_score - Bump, 0)
                      ELSE original_score
                 ELSE IF PercentageBelow(original_score, max_marks, LenientThreshold)
                      THEN Min(original_score + Bump, max_marks)
                      ELSE original_score
         IN  <<Round1(adjusted_score), Round1(original_score), mode>>

apply_evaluation_mode(original_score, max_marks, mode) ==
    IF max_marks = 0 THEN <<original_score, original_score, mode>>
    ELSE LET adjusted_score ==
                 IF mode = "Lenient"
                 THEN IF PercentageBelow(original_score, max_marks, LenientThreshold)
                      THEN Min(original_score + Bump, max_marks)
                      ELSE original_score
                 ELSE IF mode = "Strict"
                 THEN IF PercentageAbove(original_score, max_marks, StrictThreshold)
                      THEN Max(original_score - Bump, 0)
                      ELSE original_score
                 ELSE original_score
         IN  <<Round1(adjusted_score), Round1(original_score), mode>>

\* quarter marks, in hundredths
ScoreInputs == { q * 25 : q \in -ScoreMargin .. (4 * MaxWholeMarks + ScoreMargin) }
MaxMarksInputs == { m * Hundred : m \in -MinWholeMarks .. MaxWholeMarks }

\* a caller is about to call apply_evaluation_mode
InitMode ==
    /\ am_args \in [original_score : ScoreInputs, max_marks : MaxMarksInputs, mode : Modes]
    /\ am_result = None
    /\ raw_text = <<>>
    /\ parsed = None
    /\ g_args = None
    /\ g_result = None
    /\ PageUnused
    /\ OthersUnused

\* the call returns
ApplyMode ==
    /\ am_args # None
    /\ am_result = None
    /\ am_result' = apply_evaluation_mode(am_args.original_score, am_args.max_marks, am_args.mode)
    /\ UNCHANGED <<am_args, raw_text, parsed, g_args, g_result>>
    /\ UNCHANGED page
    /\ UNCHANGED others

NextMode == ApplyMode

SpecMode == InitMode /\ [][NextMode]_vars

\* ------------------------------------------- answer_grader.py: parsing
\* tokens of a model response; a text is the concatenation of its tokens.
\* FENCE stands for the three backquotes of a Markdown code fence, the
\* other tokens for their own text.
FENCE == "<fence>"
JSON == "json"
NL == "\n"
SP == " "
LB == "{"
RB == "}"
KA == "\"a\":1"
KB == "\"b\":2"
ARR == "[1]"
TXT == "x"
TS == "\"total_score\":"
\* the members of a total_score object, with their values in hundredths
ScoreTable ==
    { [token |-> "\"awarded\":10,\"max\":100", awarded |-> 1000, max |-> 10000],
      [token |-> "\"awarded\":12.25,\"max\":100", awarded |-> 1225, max |-> 10000],
      [token |-> "\"awarded\":90,\"max\":100", awarded |-> 9000, max |-> 10000] }
ScoreTokens == { e.token : e \in ScoreTable }
ScoreOf(token) == CHOOSE e \in ScoreTable : e.token = token

Whitespace == {NL, SP}

\* Python values produced by json.loads
Dict(items) == [kind |-> "dict", items |-> items]
List(items) == [kind |-> "list", items |-> items]
EmptyDict == Dict({})

\* the exception a call ends with; NoExc when it returns
NoExc == "none"

RECURSIVE Concat(_)
Concat(ss) == IF ss = <<>> THEN <<>> ELSE Head(ss) \o Concat(Tail(ss))

RECURSIVE Filter(_, _)
Filter(s, keep) ==
    IF s = <<>> THEN <<>>
    ELSE IF Head(s) \in keep THEN <<Head(s)>> \o Filter(Tail(s), keep)
    ELSE Filter(Tail(s), keep)

\* pat occurs in s at position i
OccursAt(s, i, pat) ==
    /\ i >= 1
    /\ i + Len(pat) - 1 <= Len(s)
    /\ SubSeq(s, i, i + Len(pat) - 1) = pat

SetMin(S) == CHOOSE x \in S : \A y \in S : x <= y

\* the value a JSON document spells, None when it is not one; c is the
\* document without its whitespace.  The tokens spell the documents
\*   value  ::= [1] | { } | { member }
\*   member ::= "a":1 | "b":2 | "awarded":..,"max":.. | "total_score": value
RECURSIVE json_value(_)
json_value(c) ==
    IF c = <<ARR>> THEN List({<<"0", 1>>})
    ELSE IF Len(c) < 2 \/ Head(c) # LB \/ c[Len(c)] # RB THEN None
    ELSE LET inner == SubSeq(c, 2, Len(c) - 1)
         IN  IF inner = <<>> THEN EmptyDict
             ELSE IF inner = <<KA>> THEN Dict({<<"a", 1>>})
             ELSE IF inner = <<KB>> THEN Dict({<<"b", 2>>})
             ELSE IF Len(inner) = 1 /\ inner[1] \in ScoreTokens
             THEN Dict({<<"awarded", ScoreOf(inner[1]).awarded>>,
                        <<"max", ScoreOf(inner[1]).max>>})
             ELSE IF Head(inner) = TS
             THEN LET v == json_value(Tail(inner))
                  IN  IF v = None THEN None ELSE Dict({<<"total_score", v>>})
             ELSE None

\* json.loads(text): whitespace around the JSON tokens is skipped
json_loads(text) ==
    LET v == json_value(Filter(text, {LB, RB, KA, KB, ARR, TXT, FENCE, JSON, TS} \cup ScoreTokens))
    IN  IF v = None THEN [exc |-> "JSONDecodeError", value |-> None]
        ELSE [exc |-> NoExc, value |-> v]

\* re.search(r"<fence>json\n({.*?})\n<fence>", raw, re.DOTALL): the leftmost
\* start of "<fence>json\n{" that has a later "}\n<fence>", ended by the
\* first one.
\* start..end is group(0), start+3..end-2 is group(1).
BlockOpen == <<FENCE, JSON, NL, LB>>
BlockClose == <<RB, NL, FENCE>>

re_search(raw) ==
    LET closesAfter(s) == { e \in (s + 4) .. Len(raw) : OccursAt(raw, e, BlockClose) }
        starts == { s \in 1 .. Len(raw) : OccursAt(raw, s, BlockOpen) /\ closesAfter(s) # {} }
    IN  IF starts = {} THEN None
        ELSE LET s == SetMin(starts)
             IN  [start |-> s, end |-> SetMin(closesAfter(s)) + 2]

\* s.replace(pat, ""): every non-overlapping occurrence, left to right
RECURSIVE str_remove(_, _)
str_remove(s, pat) ==
    IF s = <<>> THEN <<>>
    ELSE IF OccursAt(s, 1, pat) THEN str_remove(SubSeq(s, Len(pat) + 1, Len(s)), pat)
    ELSE <<Head(s)>> \o str_remove(Tail(s), pat)

RECURSIVE lstrip(_)
lstrip(s) == IF s # <<>> /\ Head(s) \in Whitespace THEN lstrip(Tail(s)) ELSE s

RECURSIVE rstrip(_)
rstrip(s) ==
    IF s # <<>> /\ s[Len(s)] \in Whitespace THEN rstrip(SubSeq(s, 1, Len(s) - 1)) ELSE s

strip(s) == rstrip(lstrip(s))

parse_ai_response_unstripped(raw) ==
    LET json_match == re_search(raw)
    IN  IF json_match = None
        THEN [exc |-> NoExc, value |-> [report |-> raw, analytics |-> EmptyDict]]
        ELSE LET group0 == SubSeq(raw, json_match.start, json_match.end)
                 json_string == SubSeq(raw, json_match.start + 3, json_match.end - 2)
                 loaded == json_loads(json_string)
             IN  IF loaded.exc # NoExc
                 THEN [exc |-> NoExc, value |-> [report |-> raw, analytics |-> EmptyDict]]
                 ELSE [exc |-> NoExc,
                       value |-> [report |-> str_remove(raw, group0),
                                  analytics |-> loaded.value]]

parse_ai_response_decode_uncaught(raw) ==
    LET json_match == re_search(raw)
    IN  IF json_match = None
        THEN [exc |-> NoExc, value |-> [report |-> raw, analytics |-> EmptyDict]]
        ELSE LET group0 == SubSeq(raw, json_match.start, json_match.end)
                 json_string == SubSeq(raw, json_match.start + 3, json_match.end - 2)
                 loaded == json_loads(json_string)
             IN  IF loaded.exc # NoExc
                 THEN [exc |-> loaded.exc, value |-> None]
                 ELSE [exc |-> NoExc,
                       value |-> [report |-> strip(str_remove(raw, group0)),
                                  analytics |-> loaded.value]]

\* outcome of parse_ai_response: exc is the exception that reaches the
\* caller (NoExc: the call returns), value is the returned dict
parse_ai_response(raw) ==
    LET json_match == re_search(raw)
    IN  IF json_match = None
        THEN [exc |-> NoExc, value |-> [report |-> raw, analytics |-> EmptyDict]]
        ELSE LET group0 == SubSeq(raw, json_match.start, json_match.end)
                 json_string == SubSeq(raw, json_match.start + 3, json_match.end - 2)
                 loaded == json_loads(json_string)
             IN  IF loaded.exc # NoExc
                 THEN [exc |-> NoExc, value |-> [report |-> raw, analytics |-> EmptyDict]]
                 ELSE [exc |-> NoExc,
                       value |-> [report |-> strip(str_remove(raw, group0)),
                                  analytics |-> loaded.value]]

\* the pieces the model responses are put together from
Block(body) == BlockOpen \o body \o BlockClose
Segments ==
    { <<TXT>>, <<SP>>, <<NL>>,
      Block(<<>>), Block(<<KA>>), Block(<<KB>>), Block(<<SP, KA, NL>>),
      Block(<<TXT>>),
      <<FENCE, JSON, NL, ARR, NL, FENCE>>,
      <<FENCE, JSON, SP, LB, RB, SP, FENCE>>,
      BlockOpen, BlockClose }

\* a response of the form the grading prompt asks for
ScoreResponse(token) == Block(<<TS, LB, token, RB>>) \o <<NL, TXT>>

RawTexts == { Concat(ss) : ss \in UNION { [1 .. n -> Segments] : n \in 0 .. MaxSegments } }

\* a caller is about to call parse_ai_response
InitParse ==
    /\ raw_text \in RawTexts
    /\ parsed = None
    /\ am_args = None
    /\ am_result = None
    /\ g_args = None
    /\ g_result = None
    /\ PageUnused
    /\ OthersUnused

\* the call ends
Parse ==
    /\ am_args = None
    /\ parsed = None
    /\ parsed' = parse_ai_response(raw_text)
    /\ UNCHANGED <<am_args, am_result, raw_text, g_args, g_result>>
    /\ UNCHANGED page
    /\ UNCHANGED others

NextParse == Parse

SpecParse == InitParse /\ [][NextParse]_vars

\* ------------------------------------------- answer_grader.py: grading
\* what genai.configure does in a call of initialize_gemini
ConfigureBehaviours ==
    { [kind |-> "returns"], [kind |-> "raises", message |-> "boom"] }

\* F(x) with x computed once, before F uses it
With(x, F(_)) == CHOOSE r \in { F(v) : v \in {x} } : TRUE

\* the concatenation of the tokens of a text, as one string
RECURSIVE Text(_)
Text(tokens) == IF tokens = <<>> THEN "" ELSE Head(tokens) \o Text(Tail(tokens))

\* initialize_gemini: the returned value and the st.error messages; False
\* for a missing key and when genai.configure raises
initialize_gemini(api_key, configure) ==
    IF api_key = ""
    THEN [ret |-> FALSE, st_error |-> <<"API Key is missing. Please add it on the 'Settings' page.">>]
    ELSE IF configure.kind = "raises"
    THEN [ret |-> FALSE, st_error |-> <<"Error configuring Gemini API: " \o configure.message>>]
    ELSE [ret |-> TRUE, st_error |-> <<>>]

\* the three philosophy paragraphs of the prompt
Generous == "Philosophy: Be generous."
Precise == "Philosophy: Be precise."
Balanced == "Philosophy: Be balanced and fair."

DefaultRules == "No specific rules provided."

philosophy_text_lenient_only(mode) ==
    IF mode = "Lenient" THEN Generous ELSE Balanced

philosophy_text(mode) ==
    IF mode = "Lenient" THEN Generous
    ELSE IF mode = "Strict" THEN Precise
    ELSE Balanced

\* the prompt, by the values formatted into it
Prompt(question_text, key_text, student_text, rules, mode, diagram_count) ==
    [ question_text |-> question_text,
      key_text |-> key_text,
      student_text |-> student_text,
      diagram_count |-> diagram_count,
      rules |-> IF rules = "" THEN DefaultRules ELSE rules,
      mode |-> mode,
      philosophy_text |-> philosophy_text(mode) ]

\* what GRADING_MODEL.generate_content does on one call: it raises, it
\* returns a response without parts (candidates holds the finish reasons),
\* or it returns a response with parts and a text
GradingResponses ==
    { ScoreResponse(t) : t \in ScoreTokens }
        \cup { <<TXT>>, Block(<<TXT>>) \o <<NL, TXT>>, <<SP>> \o Block(<<KA>>) }
ModelBehaviours ==
    { [kind |-> "raises", message |-> "404 model not found"] }
        \cup { [kind |-> "no_parts", candidates |-> c] : c \in {<<>>, <<"SAFETY">>} }
        \cup { [kind |-> "parts", text |-> t] : t \in GradingResponses }

ErrorDict(message) == [report |-> message, analytics |-> EmptyDict]

\* the except branch of grade_answers: the message is shown with st.error
\* and returned as the report
GradingError(e) ==
    [ exc |-> NoExc, value |-> ErrorDict(<<"Error (Grading): ">> \o e),
      st_error |-> <<Text(<<"Error (Grading): ">> \o e)>> ]

grade_answers_reraises(question_text, key_text, student_text, rules, mode, diagram_count, api_key, configure, model) ==
    LET configured == initialize_gemini(api_key, configure)
    IN  IF ~configured.ret
        THEN [exc |-> NoExc,
              value |-> ErrorDict(<<"API Key configuration failed.">>),
              prompts |-> <<>>,
              st_error |-> configured.st_error]
        ELSE LET prompt == Prompt(question_text, key_text, student_text, rules, mode, diagram_count)
                 outcome ==
                     IF model.kind = "parts"
                     THEN LET p == parse_ai_response(model.text)
                          IN  IF p.exc = NoExc
                              THEN [exc |-> NoExc, value |-> p.value, st_error |-> <<>>]
                              ELSE GradingError(<<p.exc>>)
                     ELSE IF model.kind = "no_parts"
                     THEN [exc |-> "Exception", value |-> None, st_error |-> <<>>]
                     ELSE GradingError(<<model.message>>)
             IN  [exc |-> outcome.exc, value |-> outcome.value, prompts |-> <<prompt>>,
                  st_error |-> outcome.st_error]

\* outcome of grade_answers when the grading model behaves as `model`:
\* exc is the exception that reaches the caller (NoExc: the call returns),
\* value the returned dict, prompts the prompts sent to the grading model,
\* st_error the messages shown with st.error
grade_answers(question_text, key_text, student_text, rules, mode, diagram_count, api_key, configure, model) ==
    LET configured == initialize_gemini(api_key, configure)
    IN  IF ~configured.ret
        THEN [exc |-> NoExc,
              value |-> ErrorDict(<<"API Key configuration failed.">>),
              prompts |-> <<>>,
              st_error |-> configured.st_error]
        ELSE LET prompt == Prompt(question_text, key_text, student_text, rules, mode, diagram_count)
                 outcome ==
                     IF model.kind = "parts"
                     THEN LET p == parse_ai_response(model.text)
                          IN  IF p.exc = NoExc
                              THEN [exc |-> NoExc, value |-> p.value, st_error |-> <<>>]
                              ELSE GradingError(<<p.exc>>)
                     ELSE IF model.kind = "no_parts"
                     THEN LET reason == IF model.candidates # <<>> THEN model.candidates[1]
                                        ELSE "Unknown"
                          IN  GradingError(<<"Grading failed. Reason: ", reason>>)
                     ELSE GradingError(<<model.message>>)
             IN  [exc |-> outcome.exc, value |-> outcome.value, prompts |-> <<prompt>>,
                  st_error |-> outcome.st_error]

ApiKeys == {"", "KEY"}
RulesInputs == {"", "Answer any two."}

\* a caller is about to call grade_answers
InitGrade ==
    /\ g_args \in [ question_text : {"question text"}, key_text : {"key text"},
                    student_text : {"student text"}, rules : RulesInputs,
                    mode : Modes, diagram_count : 0 .. MaxDiagrams,
                    api_key : ApiKeys ]
    /\ g_result = None
    /\ am_args = None
    /\ am_result = None
    /\ raw_text = <<>>
    /\ parsed = None
    /\ PageUnused
    /\ OthersUnused

\* the call ends, genai.configure and the grading model having behaved in
\* one of their ways
GradeAnswers ==
    /\ g_args # None
    /\ g_result = None
    /\ \E configure \in ConfigureBehaviours, model \in ModelBehaviours :
          g_result' = [ configure |-> configure,
                        model |-> model,
                        out |-> grade_answers(g_args.question_text, g_args.key_text,
                                              g_args.student_text, g_args.rules,
                                              g_args.mode, g_args.diagram_count,
                                              g_args.api_key, configure, model) ]
    /\ UNCHANGED <<am_args, am_result, raw_text, parsed, g_args>>
    /\ UNCHANGED page
    /\ UNCHANGED others

NextGrade == GradeAnswers

SpecGrade == InitGrade /\ [][NextGrade]_vars

\* ------------------------------------------------ writing a JSON file
\* a file whose content is not JSON (an empty or partly written file)
Corrupt == [kind |-> "corrupt", items |-> <<>>]

\* how os.makedirs, open(path, "w") and json.dump go: "ok"; "not_opened",
\* makedirs or open raises and the file stays as it was; "cut", the file
\* is opened, which empties it, and writing raises
WriteOutcomes == {"ok", "not_opened", "cut"}

\* ---------------------------------------------- app.py: evaluation page
\* the steps of one run of the "Start Evaluation" handler, in program order
PipelineOrder ==
    << "save_q", "save_k", "save_s",
       "convert_q", "convert_k", "convert_s",
       "ocr_q", "ocr_k", "ocr_s",
       "detect", "grade", "write" >>
SaveSteps == {"save_q", "save_k", "save_s"}
ConvertSteps == {"convert_q", "convert_k", "convert_s"}
OcrSteps == {"ocr_q", "ocr_k", "ocr_s"}

StepIndex(step) == CHOOSE i \in 1 .. Len(PipelineOrder) : PipelineOrder[i] = step
NextStep(step) == PipelineOrder[StepIndex(step) + 1]
DocOf(step) ==
    IF step \in {"save_q", "convert_q", "ocr_q"} THEN "question paper"
    ELSE IF step \in {"save_k", "convert_k", "ocr_k"} THEN "answer key"
    ELSE "answer sheet"

Usns == {"1AB19CS001", "1AB19CS002"}
\* an upload is the three PDFs of one exam
Uploads == {"exam A", "exam B"}
ApiKey == "KEY"
Username == "teacher1"
ScoringRules == ""

\* what the grading model does in a run of the page
PageModelBehaviours ==
    { [kind |-> "raises", message |-> "404 model not found"],
      [kind |-> "no_parts", candidates |-> <<"SAFETY">>],
      [kind |-> "parts", text |-> <<TXT>>],
      [kind |-> "parts", text |-> ScoreResponse("\"awarded\":12.25,\"max\":100")] }

\* the counts detect_diagrams returns in a run of the page
DiagramCounts == {0, 1}

\* the text extract_text_from_images returns for a document of an upload
TextOf(upload, doc) == <<upload, doc>>

\* main(): the session keys after initialisation, with a logged-in teacher
\* who entered an API key on the settings page
SessionDefaults ==
    [ evaluation_complete |-> FALSE,
      evaluation_report |-> <<>>,
      evaluation_analytics |-> EmptyDict,
      question_text |-> <<>>,
      key_text |-> <<>>,
      student_text |-> <<>>,
      diagram_count |-> 0,
      api_key |-> ApiKey,
      username |-> Username ]

\* the inputs of a run, its local variables, and its trace: the steps it
\* executed, what the grading model did and the prompts it was sent, the
\* number of the run that stored the texts, the diagram count and the
\* report now in the session (origin, 0 for the defaults of main), the
\* exception its except clause caught (exc_at: the index of
\* the step that raised), the st.error messages, and whether it assigned
\* evaluation_complete and wrote the record
NewRun(usn, mode, upload) ==
    [ usn |-> usn, mode |-> mode, upload |-> upload,
      saved |-> <<>>, images |-> <<>>, texts |-> <<>>, diagram_count |-> 0,
      model |-> None, prompts |-> <<>>, evaluation_data_dict |-> None,
      steps |-> <<>>, exc |-> NoExc, exc_at |-> 0, ui_errors |-> <<>>,
      set_complete |-> FALSE, wrote |-> FALSE,
      origin |-> [texts |-> 0, diagram_count |-> 0, report |-> 0] ]

InitPage ==
    /\ pc = "idle"
    /\ run = NewRun("", "Reasonable", "")
    /\ runs = 0
    /\ session_state = SessionDefaults
    /\ scores = [u \in Usns |-> None]
    /\ am_args = None
    /\ am_result = None
    /\ raw_text = <<>>
    /\ parsed = None
    /\ g_args = None
    /\ g_result = None
    /\ OthersUnused

\* the teacher presses "Start Evaluation" with a key, a USN, three PDFs and
\* a poppler path
StartEvaluation ==
    /\ pc = "idle"
    /\ runs < MaxRuns
    /\ \E usn \in Usns, mode \in UiModes, upload \in Uploads :
          run' = [NewRun(usn, mode, upload) EXCEPT !.origin = run.origin]
    /\ pc' = "save_q"
    /\ runs' = runs + 1
    /\ UNCHANGED <<session_state, scores>>
    /\ UNCHANGED calls
    /\ UNCHANGED others

\* the run after the step at pc raised e: the except clause shows the error
Excepted(e) ==
    [run EXCEPT !.steps = Append(@, pc),
                !.exc = e,
                !.exc_at = Len(run.steps) + 1,
                !.ui_errors = Append(@, "Error during evaluation")]

\* save_uploaded_file: returns the path, or shows an error and returns
\* None; after the third file the run returns if a path is missing
SaveUploadedFileUnchecked ==
    /\ pc \in SaveSteps
    /\ \E ok \in BOOLEAN :
          run' = [run EXCEPT !.steps = Append(@, pc),
                             !.saved = Append(@, ok),
                             !.ui_errors = IF ok THEN @ ELSE Append(@, "Error saving file")]
    /\ pc' = NextStep(pc)
    /\ UNCHANGED <<runs, session_state, scores>>
    /\ UNCHANGED calls
    /\ UNCHANGED others

SaveUploadedFile ==
    /\ pc \in SaveSteps
    /\ \E ok \in BOOLEAN :
          LET saved == Append(run.saved, ok)
              r == [run EXCEPT !.steps = Append(@, pc),
                               !.saved = saved,
                               !.ui_errors = IF ok THEN @ ELSE Append(@, "Error saving file")]
          IN  IF pc = "save_s" /\ (\E i \in 1 .. Len(saved) : ~saved[i])
              THEN /\ run' = [r EXCEPT !.ui_errors =
                                 Append(@, "Failed to save one or more uploaded files.")]
                   /\ pc' = "idle"
              ELSE /\ run' = r
                   /\ pc' = NextStep(pc)
    /\ UNCHANGED <<runs, session_state, scores>>
    /\ UNCHANGED calls
    /\ UNCHANGED others

\* convert_pdf_to_images returns the page images
ConvertPdf ==
    /\ pc \in ConvertSteps
    /\ run' = [run EXCEPT !.steps = Append(@, pc),
                          !.images = Append(@, <<run.upload, DocOf(pc)>>)]
    /\ pc' = NextStep(pc)
    /\ UNCHANGED <<runs, session_state, scores>>
    /\ UNCHANGED calls
    /\ UNCHANGED others

\* convert_pdf_to_images raises (pdf2image missing, poppler not found, bad PDF)
ConvertPdfRaises ==
    /\ pc \in ConvertSteps
    /\ run' = Excepted("PDFInfoNotInstalledError")
    /\ pc' = "idle"
    /\ UNCHANGED <<runs, session_state, scores>>
    /\ UNCHANGED calls
    /\ UNCHANGED others

\* extract_text_from_images returns the text of the document, or shows an
\* error and returns the configuration message when initialize_gemini
\* fails; after the third text the three texts are stored in the session
ExtractText ==
    /\ pc \in OcrSteps
    /\ \E configure \in ConfigureBehaviours :
          LET configured == initialize_gemini(session_state.api_key, configure)
              text == IF configured.ret THEN TextOf(run.upload, DocOf(pc))
                      ELSE <<"API Key configuration failed.">>
              texts == Append(run.texts, text)
          IN  /\ run' = [run EXCEPT !.steps = Append(@, pc), !.texts = texts,
                                    !.ui_errors = @ \o configured.st_error,
                                    !.origin.texts = IF pc = "ocr_s" THEN runs ELSE @]
              /\ session_state' =
                    IF pc = "ocr_s"
                    THEN [session_state EXCEPT !.question_text = texts[1],
                                               !.key_text = texts[2],
                                               !.student_text = texts[3]]
                    ELSE session_state
    /\ pc' = NextStep(pc)
    /\ UNCHANGED <<runs, scores>>
    /\ UNCHANGED calls
    /\ UNCHANGED others

\* detect_diagrams returns a count, which is stored in the session
DetectDiagrams ==
    /\ pc = "detect"
    /\ \E n \in DiagramCounts :
          /\ run' = [run EXCEPT !.steps = Append(@, pc), !.diagram_count = n,
                                !.origin.diagram_count = runs]
          /\ session_state' = [session_state EXCEPT !.diagram_count = n]
    /\ pc' = NextStep(pc)
    /\ UNCHANGED <<runs, scores>>
    /\ UNCHANGED calls
    /\ UNCHANGED others

DetectDiagramsSwallowed ==
    /\ pc = "detect"
    /\ run' = Excepted("FileDataError")
    /\ pc' = NextStep(pc)
    /\ UNCHANGED <<runs, session_state, scores>>
    /\ UNCHANGED calls
    /\ UNCHANGED others

\* detect_diagrams raises (fitz cannot open the PDF)
DetectDiagramsRaises ==
    /\ pc = "detect"
    /\ run' = Excepted("FileDataError")
    /\ pc' = "idle"
    /\ UNCHANGED <<runs, session_state, scores>>
    /\ UNCHANGED calls
    /\ UNCHANGED others

\* grade_answers is called with the selected mode; the errors it shows are
\* on the page, its report and analytics are stored in the session and
\* evaluation_complete is set
GradeStep ==
    /\ pc = "grade"
    /\ \E configure \in ConfigureBehaviours, model \in PageModelBehaviours :
          LET out == grade_answers(run.texts[1], run.texts[2], run.texts[3],
                                   ScoringRules, run.mode, run.diagram_count,
                                   session_state.api_key, configure, model)
          IN  IF out.exc # NoExc
              THEN /\ run' = [Excepted(out.exc) EXCEPT !.model = model,
                                                      !.prompts = out.prompts]
                   /\ pc' = "idle"
                   /\ UNCHANGED session_state
              ELSE /\ run' = [run EXCEPT !.steps = Append(@, pc),
                                         !.model = IF out.prompts = <<>> THEN None ELSE model,
                                         !.prompts = out.prompts,
                                         !.ui_errors = @ \o out.st_error,
                                         !.evaluation_data_dict = out.value,
                                         !.set_complete = TRUE,
                                         !.origin.report = runs]
                   /\ session_state' =
                         [session_state EXCEPT
                             !.evaluation_analytics = out.value.analytics,
                             !.evaluation_report = out.value.report,
                             !.evaluation_complete = TRUE]
                   /\ pc' = NextStep(pc)
    /\ UNCHANGED <<runs, scores>>
    /\ UNCHANGED calls
    /\ UNCHANGED others

\* save_evaluation_to_history writes outputs/scores/<usn>.json, or shows an
\* error and returns False, the file as it was when it could not be opened
\* and not JSON when the writing raised; the run ends
SaveEvaluation ==
    /\ pc = "write"
    /\ \E write \in WriteOutcomes :
          IF write = "ok"
          THEN /\ scores' = [scores EXCEPT ![run.usn] =
                               [ usn |-> run.usn,
                                 evaluated_by |-> session_state.username,
                                 diagram_count |-> run.diagram_count,
                                 evaluation_report |-> run.evaluation_data_dict.report,
                                 analytics_data |-> run.evaluation_data_dict.analytics ]]
               /\ run' = [run EXCEPT !.steps = Append(@, pc), !.wrote = TRUE]
          ELSE /\ scores' = IF write = "cut" THEN [scores EXCEPT ![run.usn] = Corrupt]
                            ELSE scores
               /\ run' = [run EXCEPT !.steps = Append(@, pc),
                                     !.ui_errors = Append(@, "Error saving evaluation history")]
    /\ pc' = "idle"
    /\ UNCHANGED <<runs, session_state>>
    /\ UNCHANGED calls
    /\ UNCHANGED others

Next ==
    \/ StartEvaluation
    \/ SaveUploadedFile
    \/ ConvertPdf
    \/ ConvertPdfRaises
    \/ ExtractText
    \/ DetectDiagrams
    \/ DetectDiagramsRaises
    \/ GradeStep
    \/ SaveEvaluation

Spec == InitPage /\ [][Next]_vars

\* ------------------------------------------------- ocr_extraction.py

\* str(n) for a natural number, as its decimal digits
DecimalDigits == <<"0", "1", "2", "3", "4", "5", "6", "7", "8", "9">>
RECURSIVE str(_)
str(n) ==
    IF n < 10 THEN <<DecimalDigits[n + 1]>>
    ELSE str(n \div 10) \o <<DecimalDigits[(n % 10) + 1]>>

\* sep.join(list)
RECURSIVE join(_, _)
join(sep, list) ==
    IF list = <<>> THEN <<>>
    ELSE IF Len(list) = 1 THEN Head(list)
    ELSE Head(list) \o sep \o join(sep, Tail(list))

\* what OCR_MODEL.generate_content does for one page: it raises, it returns
\* a response without parts (candidates holds the finish reasons), or it
\* returns a response with parts and a text
OcrTexts == { <<"Q1. Define a process.">>, <<"line 1", NL, "line 2">> }
OcrModelBehaviours ==
    { [kind |-> "raises", message |-> "429 quota exceeded"] }
        \cup { [kind |-> "no_parts", candidates |-> c] : c \in {<<>>, <<"SAFETY">>} }
        \cup { [kind |-> "parts", text |-> t] : t \in OcrTexts }

Images == {"b64 page A", "b64 page B"}

ocr_page_zero_based(i, model) ==
    IF model.kind = "raises"
    THEN <<"[Page ">> \o str(i) \o <<" OCR Error: ", model.message, "]">>
    ELSE IF model.kind = "parts"
    THEN model.text
    ELSE LET reason == IF model.candidates # <<>> THEN model.candidates[1] ELSE "Unknown"
         IN  <<"[Page ">> \o str(i) \o <<" OCR Failed: ", reason, "]">>

\* one iteration of the loop, for the page at index i (0-based, as
\* enumerate counts): the text appended to all_extracted_text
ocr_page(i, model) ==
    IF model.kind = "raises"
    THEN <<"[Page ">> \o str(i + 1) \o <<" OCR Error: ", model.message, "]">>
    ELSE IF model.kind = "parts"
    THEN model.text
    ELSE LET reason == IF model.candidates # <<>> THEN model.candidates[1] ELSE "Unknown"
         IN  <<"[Page ">> \o str(i + 1) \o <<" OCR Failed: ", reason, "]">>

\* a caller is about to call extract_text_from_images; configure is what
\* genai.configure will do in the call
InitOcr ==
    /\ ocr_args \in [ images_base64 : UNION { [1 .. n -> Images] : n \in 0 .. MaxImages },
                      api_key : ApiKeys,
                      configure : ConfigureBehaviours ]
    /\ ocr_pages = <<>>
    /\ all_extracted_text = <<>>
    /\ ocr_result = None
    /\ CallsUnused
    /\ PageUnused
    /\ LoginUnused
    /\ ClockUnused
    /\ SessionUnused
    /\ FeedbackUnused
    /\ GfUnused
    /\ DdUnused

OcrFrame ==
    /\ UNCHANGED <<calls, page>>
    /\ UNCHANGED <<login_vars, now, last_ops, feedback_vars, gf_vars, dd_vars>>

\* initialize_gemini fails: the call returns the configuration message
OcrConfigFails ==
    /\ ocr_args # None
    /\ ocr_result = None
    /\ ~initialize_gemini(ocr_args.api_key, ocr_args.configure).ret
    /\ ocr_result' = [ret |-> <<"API Key configuration failed.">>]
    /\ UNCHANGED <<ocr_args, ocr_pages, all_extracted_text>>
    /\ OcrFrame

\* no images: the call returns the empty string
OcrNoImages ==
    /\ ocr_args # None
    /\ ocr_result = None
    /\ initialize_gemini(ocr_args.api_key, ocr_args.configure).ret
    /\ ocr_args.images_base64 = <<>>
    /\ ocr_result' = [ret |-> <<>>]
    /\ UNCHANGED <<ocr_args, ocr_pages, all_extracted_text>>
    /\ OcrFrame

\* one iteration of the loop over the images
OcrPage ==
    /\ ocr_args # None
    /\ ocr_result = None
    /\ initialize_gemini(ocr_args.api_key, ocr_args.configure).ret
    /\ Len(all_extracted_text) < Len(ocr_args.images_base64)
    /\ LET i == Len(all_extracted_text)
       IN  \E model \in OcrModelBehaviours :
              /\ ocr_pages' = Append(ocr_pages,
                                     [data |-> ocr_args.images_base64[i + 1], model |-> model])
              /\ all_extracted_text' = Append(all_extracted_text, ocr_page(i, model))
    /\ UNCHANGED <<ocr_args, ocr_result>>
    /\ OcrFrame

\* the loop is over: the call returns the joined texts
OcrReturn ==
    /\ ocr_args # None
    /\ ocr_result = None
    /\ initialize_gemini(ocr_args.api_key, ocr_args.configure).ret
    /\ ocr_args.images_base64 # <<>>
    /\ Len(all_extracted_text) = Len(ocr_args.images_base64)
    /\ ocr_result' = [ret |-> join(<<NL>>, all_extracted_text)]
    /\ UNCHANGED <<ocr_args, ocr_pages, all_extracted_text>>
    /\ OcrFrame

NextOcr ==
    \/ OcrConfigFails
    \/ OcrNoImages
    \/ OcrPage
    \/ OcrReturn

SpecOcr == InitOcr /\ [][NextOcr]_vars

\* ------------------------------------------------------------ login.py
Usernames == {"teacher1", "admin1"}
\* the third password is the hex digest of the first
Passwords ==
    { "secret", "hunter2",
      "2bb80d537b1da3e38bd30361aa855686bde0eacd7162fef6a25fe97bf527a25b" }
Emails == {"t1@college.edu"}
Roles == {"teacher", "admin"}

\* hashlib.sha256(password.encode()).hexdigest()
Sha256Hex(password) ==
    CASE password = "secret" ->
            "2bb80d537b1da3e38bd30361aa855686bde0eacd7162fef6a25fe97bf527a25b"
      [] password = "hunter2" ->
            "f52fbd32b2b3b86ff88ef6c490628285f482af15ddcb29541f94bcf526a3f6c7"
      [] password = "2bb80d537b1da3e38bd30361aa855686bde0eacd7162fef6a25fe97bf527a25b" ->
            "3d91b58504a6cc3a159005ee7b16c7ae503ca6ac2a6a3c893837083c236b864a"

hash_password_plain(password) == password

hash_password(password) == Sha256Hex(password)

\* load_users: the stored dict, {} when the file is absent; a dict is a
\* function from its keys
load_users(file) == file

\* d[key] = value
SetItem(d, key, value) ==
    [k \in (DOMAIN d) \cup {key} |-> IF k = key THEN value ELSE d[k]]

register_user_overwrites(file, username, password, email, role, created_at) ==
    [ ret |-> [success |-> TRUE, result |-> "Registration successful"],
      file |-> SetItem(load_users(file), username,
                       [ password |-> hash_password(password),
                         email |-> email,
                         role |-> role,
                         created_at |-> created_at,
                         evaluations |-> <<>> ]) ]

\* register_user: the returned pair and the users file after the call
register_user(file, username, password, email, role, created_at) ==
    LET loaded == load_users(file)
    IN  IF username \in DOMAIN loaded
        THEN [ ret |-> [success |-> FALSE, result |-> "Username already exists"],
               file |-> file ]
        ELSE [ ret |-> [success |-> TRUE, result |-> "Registration successful"],
               file |-> SetItem(loaded, username,
                                [ password |-> hash_password(password),
                                  email |-> email,
                                  role |-> role,
                                  created_at |-> created_at,
                                  evaluations |-> <<>> ]) ]

authenticate_user_any_password(file, username, password) ==
    LET loaded == load_users(file)
    IN  IF username \notin DOMAIN loaded
        THEN [success |-> FALSE, result |-> "User not found"]
        ELSE [success |-> TRUE, result |-> loaded[username]]

\* authenticate_user: the returned pair
authenticate_user(file, username, password) ==
    LET loaded == load_users(file)
    IN  IF username \notin DOMAIN loaded
        THEN [success |-> FALSE, result |-> "User not found"]
        ELSE IF loaded[username].password = hash_password(password)
        THEN [success |-> TRUE, result |-> loaded[username]]
        ELSE [success |-> FALSE, result |-> "Invalid password"]

\* no users file yet
InitLogin ==
    /\ users = None
    /\ registered = None
    /\ login_ret = None
    /\ now = 0
    /\ CallsUnused
    /\ PageUnused
    /\ OcrUnused
    /\ SessionUnused
    /\ FeedbackUnused
    /\ GfUnused
    /\ DdUnused

LoginFrame ==
    /\ UNCHANGED <<calls, page>>
    /\ UNCHANGED <<ocr_vars, last_ops, feedback_vars, gf_vars, dd_vars>>

\* a register_user call, at time now
RegisterUser ==
    /\ now < MaxClock
    /\ \E username \in Usernames, password \in Passwords, email \in Emails, role \in Roles :
          LET out == register_user(users, username, password, email, role, now)
          IN  /\ users' = out.file
              /\ registered' = IF out.ret.success
                               THEN SetItem(registered, username, password)
                               ELSE registered
              /\ login_ret' = [ op |-> "register_user", username |-> username,
                                password |-> password, email |-> email, role |-> role,
                                before |-> users, ret |-> out.ret ]
    /\ now' = now + 1
    /\ LoginFrame

\* an authenticate_user call
AuthenticateUser ==
    /\ \E username \in Usernames, password \in Passwords :
          login_ret' = [ op |-> "authenticate_user", username |-> username,
                         password |-> password, email |-> "", role |-> "",
                         before |-> users,
                         ret |-> authenticate_user(users, username, password) ]
    /\ UNCHANGED <<users, registered, now>>
    /\ LoginFrame

NextLogin ==
    \/ RegisterUser
    \/ AuthenticateUser

SpecLogin == InitLogin /\ [][NextLogin]_vars

\* ------------------------------------------- app.py, login.py: the session
\* In SpecSession st.session_state is a function from the keys present to
\* their values, and every script run starts with the initialisation of
\* main().

HasSessionKey(s, key) == key \in DOMAIN s

\* del st.session_state[key] for the keys of the list that are present
DelItems(s, keys) == [k \in (DOMAIN s) \ keys |-> s[k]]

\* if key not in st.session_state: st.session_state[key] = value
SetDefault(s, key, value) == IF HasSessionKey(s, key) THEN s ELSE SetItem(s, key, value)

\* main(): the initialisation of the session keys
main_init(s) ==
    LET s1 == SetDefault(s, "evaluation_complete", FALSE)
        s2 == SetDefault(s1, "evaluation_report", <<>>)
        s3 == SetDefault(s2, "evaluation_data", EmptyDict)
        s4 == SetDefault(s3, "evaluation_analytics", EmptyDict)
        s5 == SetDefault(s4, "question_text", <<>>)
        s6 == SetDefault(s5, "key_text", <<>>)
        s7 == SetDefault(s6, "student_text", <<>>)
        s8 == SetDefault(s7, "diagram_count", 0)
    IN  SetDefault(s8, "api_key", "")

keys_to_clear_login_only == {"logged_in", "username", "user_data", "role"}

keys_to_clear ==
    { "logged_in", "username", "user_data", "role",
      "evaluation_complete", "evaluation_report", "evaluation_data",
      "evaluation_analytics" }

\* logout(): the session after the callback
logout(s) == DelItems(s, keys_to_clear)

is_logged_in(s) == IF HasSessionKey(s, "logged_in") THEN s.logged_in ELSE FALSE

\* the role main() routes by
RoleOf(s) == IF HasSessionKey(s, "role") THEN s.role ELSE "student"

\* the teacher pages are rendered
TeacherView(s) == is_logged_in(s) /\ RoleOf(s) \in {"teacher", "admin"}

\* the records authenticate_user returns to login_page
UserData ==
    [ password : {Sha256Hex("secret")}, email : Emails, role : Roles,
      created_at : {0}, evaluations : {<<>>} ]

Reports == {<<"report A">>, <<"report B">>}

\* the trace of the session: the last two script runs or callbacks, whether
\* an evaluation stored a report since the last logout, and the report the
\* last logout found in the session (None when it found none)
Traced(op, graded, dropped) ==
    [prev |-> last_ops.last, last |-> op, graded |-> graded, dropped |-> dropped]

\* a browser session opens: no keys
InitSession ==
    /\ last_ops = [prev |-> "none", last |-> "none", graded |-> FALSE, dropped |-> None]
    /\ PageUnused
    /\ CallsUnused
    /\ OcrUnused
    /\ LoginUnused
    /\ ClockUnused
    /\ FeedbackUnused
    /\ GfUnused
    /\ DdUnused

SessionFrame ==
    /\ UNCHANGED <<calls, pc, run, runs, scores>>
    /\ UNCHANGED <<ocr_vars, login_vars, now, feedback_vars, gf_vars, dd_vars>>

\* a script run without any event handled
RunMain ==
    /\ session_state' = main_init(session_state)
    /\ last_ops' = Traced("main", last_ops.graded, last_ops.dropped)
    /\ SessionFrame

\* login_page, teacher / admin form: authenticate_user succeeded
LoginTeacher ==
    /\ LET s == main_init(session_state)
       IN  /\ ~is_logged_in(s)
           /\ \E username \in Usernames, result \in UserData :
                 session_state' =
                     SetItem(SetItem(SetItem(SetItem(s, "logged_in", TRUE),
                                             "username", username),
                                     "user_data", result),
                             "role", result.role)
    /\ last_ops' = Traced("login", last_ops.graded, last_ops.dropped)
    /\ SessionFrame

\* login_page, student form: the USN is in the master list
LoginStudent ==
    /\ LET s == main_init(session_state)
       IN  /\ ~is_logged_in(s)
           /\ \E usn \in Usns :
                 session_state' =
                     SetItem(SetItem(SetItem(s, "logged_in", TRUE), "username", usn),
                             "role", "student")
    /\ last_ops' = Traced("login", last_ops.graded, last_ops.dropped)
    /\ SessionFrame

\* display_settings_page: a key is entered
SaveApiKey ==
    /\ LET s == main_init(session_state)
       IN  /\ TeacherView(s)
           /\ session_state' = SetItem(s, "api_key", ApiKey)
    /\ last_ops' = Traced("settings", last_ops.graded, last_ops.dropped)
    /\ SessionFrame

\* display_evaluation_page: an evaluation run that ends before the texts
\* are stored ("none"), after the texts are stored ("texts"), after the
\* diagram count is stored ("diagrams") or after grade_answers returned
\* ("graded")
Evaluate ==
    /\ LET s == main_init(session_state)
       IN  /\ TeacherView(s)
           /\ \E upload \in Uploads, n \in 0 .. MaxDiagrams, report \in Reports,
                 reached \in {"none", "texts", "diagrams", "graded"} :
                 LET t == SetItem(SetItem(SetItem(s, "question_text", TextOf(upload, "q")),
                                          "key_text", TextOf(upload, "k")),
                                  "student_text", TextOf(upload, "s"))
                     d == SetItem(t, "diagram_count", n)
                     g == SetItem(SetItem(SetItem(d, "evaluation_analytics",
                                                  Dict({<<"report", report>>})),
                                          "evaluation_report", report),
                                  "evaluation_complete", TRUE)
                 IN  /\ session_state' =
                           CASE reached = "none" -> s
                             [] reached = "texts" -> t
                             [] reached = "diagrams" -> d
                             [] reached = "graded" -> g
                     /\ last_ops' = Traced("evaluate",
                                           last_ops.graded \/ reached = "graded",
                                           last_ops.dropped)
    /\ SessionFrame

\* logout(), the on_click callback of the Logout buttons, from any session
Logout ==
    /\ session_state' = logout(session_state)
    /\ last_ops' = Traced("logout", FALSE,
                          IF HasSessionKey(session_state, "evaluation_report")
                          THEN session_state.evaluation_report ELSE None)
    /\ SessionFrame

NextSession ==
    \/ RunMain
    \/ LoginTeacher
    \/ LoginStudent
    \/ SaveApiKey
    \/ Evaluate
    \/ Logout

SpecSession == InitSession /\ [][NextSession]_vars

\* --------------------------------------------------- feedback_handler.py
\* The file data/feedback.json is None when absent.  For calls made one
\* after the other it is List(entries) when it holds a JSON list and
\* Corrupt when its content is not JSON (an empty or partly written
\* file).  Where two writers have the file open at once it is
\* Written(text), its text character by character: an entry is then what
\* json.load makes of it, with its id and its timestamp as strings.

\* datetime.now().isoformat() for the reading t of the clock: the clock
\* counts the microseconds after 2026-10-31T07:19:54.830680
isoformat(t) == "2026-10-31T07:19:54." \o Text(str(830680 + t))

\* json.dump(all_feedback, f, indent=2, ensure_ascii=False): the text it
\* writes, for entries whose strings need no escape
quoted(s) == "\"" \o s \o "\""
entry_text(entry) ==
    "{\n    \"id\": " \o quoted(entry.id)
        \o ",\n    \"usn\": " \o quoted(entry.usn)
        \o ",\n    \"role\": " \o quoted(entry.role)
        \o ",\n    \"rating\": " \o Text(str(entry.rating))
        \o ",\n    \"comment\": " \o quoted(entry.comment)
        \o ",\n    \"subject\": " \o quoted(entry.subject)
        \o ",\n    \"timestamp\": " \o quoted(entry.timestamp)
        \o "\n  }"
RECURSIVE entries_text(_)
entries_text(entries) ==
    IF Len(entries) = 1 THEN entry_text(entries[1])
    ELSE entry_text(Head(entries)) \o ",\n  " \o entries_text(Tail(entries))
json_dump(all_feedback) ==
    IF all_feedback = <<>> THEN "[]" ELSE "[\n  " \o entries_text(all_feedback) \o "\n]"

Written(text) == [kind |-> "written", items |-> text]

\* the text of a file after a writer that opened it wrote the first n
\* characters of text from the start of the file
write_from_start(content, text, n) == SubSeq(text, 1, n) \o SubSeq(content, n + 1, Len(content))

\* json.load reads the text character by character: the character at
\* position p, "" after the end
Char(text, p) == IF p >= 1 /\ p <= Len(text) THEN SubSeq(text, p, p) ELSE ""
JsonWhitespace == {" ", "\n", "\r", "\t"}
\* the first position from p on that holds no whitespace
skip_whitespace(text, p) ==
    CHOOSE q \in p .. Len(text) + 1 :
        /\ Char(text, q) \notin JsonWhitespace
        /\ \A r \in p .. q - 1 : Char(text, r) \in JsonWhitespace
Parsed(value, next) == [ok |-> TRUE, value |-> value, next |-> next]
Failed == [ok |-> FALSE, value |-> None, next |-> 0]
\* a string that starts at p with its opening quote
scan_string(text, p) ==
    LET closing == { q \in p + 1 .. Len(text) : Char(text, q) = "\"" }
    IN  IF closing = {} THEN Failed
        ELSE LET q == CHOOSE c \in closing : \A d \in closing : c <= d
                 s == SubSeq(text, p + 1, q - 1)
             IN  IF \E r \in p + 1 .. q - 1 : Char(text, r) \in {"\\", "\n", "\r", "\t"}
                 THEN Failed
                 ELSE Parsed(s, q + 1)
\* a whole number that starts at p
RECURSIVE int(_, _, _)
int(text, p, q) ==
    IF q < p THEN 0
    ELSE 10 * int(text, p, q - 1)
            + (CHOOSE d \in 0 .. 9 : DecimalDigits[d + 1] = Char(text, q))
scan_number(text, p) ==
    LET first == IF Char(text, p) = "-" THEN p + 1 ELSE p
        IsDigit(r) == \E d \in 1 .. 10 : DecimalDigits[d] = Char(text, r)
        after == CHOOSE q \in first .. Len(text) + 1 :
                    ~IsDigit(q) /\ \A r \in first .. q - 1 : IsDigit(r)
    IN  IF \/ after = first
           \/ Char(text, after) \in {".", "e", "E"}
           \/ (after > first + 1 /\ Char(text, first) = "0")
        THEN Failed
        ELSE Parsed(IF first = p THEN int(text, first, after - 1)
                    ELSE -int(text, first, after - 1), after)

RECURSIVE parse_value(_, _)
RECURSIVE parse_members(_, _, _)
RECURSIVE parse_elements(_, _, _)
\* "key": value and the whitespace after it, from the quote of the key at p
parse_member(text, p) ==
    IF Char(text, p) # "\"" THEN Failed
    ELSE With(scan_string(text, p), LAMBDA key :
            IF ~key.ok \/ Char(text, skip_whitespace(text, key.next)) # ":" THEN Failed
            ELSE With(parse_value(text, skip_whitespace(text,
                                           skip_whitespace(text, key.next) + 1)),
                      LAMBDA v :
                         IF ~v.ok THEN Failed
                         ELSE [ok |-> TRUE, key |-> key.value, value |-> v.value,
                               next |-> skip_whitespace(text, v.next)]))
\* the members of an object from the one at p on; a later member replaces
\* an earlier one of the same key
parse_members(text, p, object) ==
    With(parse_member(text, p), LAMBDA m :
        IF ~m.ok THEN Failed
        ELSE IF Char(text, m.next) = "}"
        THEN Parsed((m.key :> m.value) @@ object, m.next + 1)
        ELSE IF Char(text, m.next) = ","
        THEN With([at |-> skip_whitespace(text, m.next + 1),
                   object |-> (m.key :> m.value) @@ object],
                  LAMBDA rest : parse_members(text, rest.at, rest.object))
        ELSE Failed)
\* the elements of an array from the one at p on
parse_elements(text, p, array) ==
    With(parse_value(text, p), LAMBDA v :
        IF ~v.ok THEN Failed
        ELSE With(skip_whitespace(text, v.next), LAMBDA q :
            IF Char(text, q) = "]" THEN Parsed(Append(array, v.value), q + 1)
            ELSE IF Char(text, q) = ","
            THEN With([at |-> skip_whitespace(text, q + 1), array |-> Append(array, v.value)],
                      LAMBDA rest : parse_elements(text, rest.at, rest.array))
            ELSE Failed))
\* the value that starts at p
parse_value(text, p) ==
    LET c == Char(text, p)
    IN  IF c = "\"" THEN scan_string(text, p)
        ELSE IF c = "{"
        THEN With(skip_whitespace(text, p + 1), LAMBDA q :
                IF Char(text, q) = "}" THEN Parsed(<<>>, q + 1)
                ELSE parse_members(text, q, <<>>))
        ELSE IF c = "["
        THEN With(skip_whitespace(text, p + 1), LAMBDA q :
                IF Char(text, q) = "]" THEN Parsed(<<>>, q + 1)
                ELSE parse_elements(text, q, <<>>))
        ELSE IF c = "-" \/ \E d \in 1 .. 10 : DecimalDigits[d] = c
        THEN scan_number(text, p)
        ELSE Failed
\* json.load(f): the value of the text, or JSONDecodeError
json_load(text) ==
    With(parse_value(text, skip_whitespace(text, 1)), LAMBDA v :
        IF v.ok /\ skip_whitespace(text, v.next) = Len(text) + 1
        THEN [exc |-> NoExc, value |-> v.value]
        ELSE [exc |-> "JSONDecodeError", value |-> None])

load_feedback(file) ==
    IF file = None THEN <<>>
    ELSE IF file.kind = "corrupt" THEN <<>>
    ELSE IF file.kind = "written"
    THEN LET loaded == json_load(file.items)
         IN  IF loaded.exc = NoExc THEN loaded.value ELSE <<>>
    ELSE file.items

save_feedback_prepends(file, usn, role, rating, comment, subject, id_time, timestamp, write) ==
    LET new_entry == [ id |-> <<usn, "_", id_time>>, usn |-> usn, role |-> role,
                       rating |-> rating, comment |-> comment, subject |-> subject,
                       timestamp |-> timestamp ]
        all_feedback == <<new_entry>> \o load_feedback(file)
    IN  CASE write = "ok" -> [ret |-> TRUE, file |-> List(all_feedback)]
          [] write = "not_opened" -> [ret |-> FALSE, file |-> file]
          [] write = "cut" -> [ret |-> FALSE, file |-> Corrupt]

\* save_feedback: the returned value and the file after the call;
\* id_time and timestamp are the two readings of datetime.now()
save_feedback(file, usn, role, rating, comment, subject, id_time, timestamp, write) ==
    LET new_entry == [ id |-> <<usn, "_", id_time>>, usn |-> usn, role |-> role,
                       rating |-> rating, comment |-> comment, subject |-> subject,
                       timestamp |-> timestamp ]
        all_feedback == Append(load_feedback(file), new_entry)
    IN  CASE write = "ok" -> [ret |-> TRUE, file |-> List(all_feedback)]
          [] write = "not_opened" -> [ret |-> FALSE, file |-> file]
          [] write = "cut" -> [ret |-> FALSE, file |-> Corrupt]

FeedbackRoles == {"student", "teacher"}
Ratings == {1, 5}
Comments == {""}
Subjects == {"General"}

\* no feedback file yet
InitFeedback ==
    /\ feedback_file = None
    /\ fb_log = <<>>
    /\ fb_calls = None
    /\ now = 0
    /\ CallsUnused
    /\ PageUnused
    /\ OcrUnused
    /\ LoginUnused
    /\ SessionUnused
    /\ GfUnused
    /\ DdUnused

\* a save_feedback call, from its first statement to its return; the
\* clock may tick between the two readings of datetime.now()
SaveFeedback ==
    /\ now < MaxClock
    /\ \E usn \in Usns, role \in FeedbackRoles, rating \in Ratings, comment \in Comments,
          subject \in Subjects, timestamp \in {now, now + 1}, write \in WriteOutcomes :
          LET out == save_feedback(feedback_file, usn, role, rating, comment, subject,
                                   now, timestamp, write)
          IN  /\ feedback_file' = out.file
              /\ fb_log' = Append(fb_log,
                                  [ usn |-> usn, role |-> role, rating |-> rating,
                                    comment |-> comment, subject |-> subject,
                                    before |-> load_feedback(feedback_file),
                                    ret |-> out.ret ])
              /\ now' = timestamp + 1
    /\ UNCHANGED fb_calls
    /\ UNCHANGED <<calls, page>>
    /\ UNCHANGED <<ocr_vars, login_vars, last_ops, gf_vars, dd_vars>>

NextFeedback == SaveFeedback

SpecFeedback == InitFeedback /\ [][NextFeedback]_vars

\* Two browser sessions, each a thread of the server, call save_feedback
\* at the same time.  A call takes five steps: it loads the file ("idle"
\* to "id"), it reads the clock for the id of its entry ("id" to
\* "timestamp"), it reads the clock again for the timestamp and appends
\* the entry to the loaded list ("timestamp" to "open"), it opens the file
\* for writing, which empties it ("open" to "dump"), and it dumps the
\* list, writing from the start of the file over what another writer put
\* there since, and returns ("dump" to "done").  The clock moves on its
\* own, between any two steps.
FeedbackSessions == {"session 1", "session 2"}
\* the student logged in in each session
SessionUsn == [s \in FeedbackSessions |-> IF s = "session 1" THEN "1AB19CS001" ELSE "1AB19CS002"]

IdleCall ==
    [ pc |-> "idle", args |-> None, id |-> None, new_entry |-> None,
      all_feedback |-> <<>>, ret |-> None ]

\* the entry of an earlier save_feedback call
EarlierEntry ==
    [ id |-> "1AB19CS002_" \o isoformat(0), usn |-> "1AB19CS002", role |-> "student",
      rating |-> 1, comment |-> "", subject |-> "General", timestamp |-> isoformat(0) ]

\* no feedback file yet, or one with an earlier entry
InitFeedbackRace ==
    /\ feedback_file \in {None, Written(json_dump(<<EarlierEntry>>))}
    /\ fb_log = <<>>
    /\ fb_calls = [s \in FeedbackSessions |-> IdleCall]
    /\ now = 1
    /\ CallsUnused
    /\ PageUnused
    /\ OcrUnused
    /\ LoginUnused
    /\ SessionUnused
    /\ GfUnused
    /\ DdUnused

RaceFrame ==
    /\ UNCHANGED <<calls, page>>
    /\ UNCHANGED <<ocr_vars, login_vars, last_ops, gf_vars, dd_vars>>

\* the clock moves
Tick ==
    /\ now < MaxClock
    /\ now' = now + 1
    /\ UNCHANGED <<feedback_file, fb_log, fb_calls>>
    /\ RaceFrame

\* the call begins: all_feedback = load_feedback()
LoadFeedback ==
    /\ \E s \in FeedbackSessions, rating \in Ratings, comment \in Comments,
          subject \in Subjects :
          /\ fb_calls[s].pc = "idle"
          /\ fb_calls' = [fb_calls EXCEPT ![s] =
                             [ pc |-> "id",
                               args |-> [ usn |-> SessionUsn[s], role |-> "student",
                                          rating |-> rating,
                                          comment |-> comment, subject |-> subject ],
                               id |-> None, new_entry |-> None,
                               all_feedback |-> load_feedback(feedback_file),
                               ret |-> None ]]
    /\ UNCHANGED <<feedback_file, fb_log, now>>
    /\ RaceFrame

\* "id": f"{usn}_{datetime.now().isoformat()}": the first reading of the clock
ReadIdTime ==
    /\ \E s \in FeedbackSessions :
          /\ fb_calls[s].pc = "id"
          /\ fb_calls' = [fb_calls EXCEPT
                             ![s].pc = "timestamp",
                             ![s].id = fb_calls[s].args.usn \o "_" \o isoformat(now)]
    /\ UNCHANGED <<feedback_file, fb_log, now>>
    /\ RaceFrame

\* "timestamp": datetime.now().isoformat(), the second reading of the
\* clock, and all_feedback.append(new_entry)
AppendEntry ==
    /\ \E s \in FeedbackSessions :
          /\ fb_calls[s].pc = "timestamp"
          /\ LET args == fb_calls[s].args
                 new_entry == [ id |-> fb_calls[s].id,
                                usn |-> args.usn, role |-> args.role,
                                rating |-> args.rating, comment |-> args.comment,
                                subject |-> args.subject, timestamp |-> isoformat(now) ]
             IN  fb_calls' = [fb_calls EXCEPT
                                 ![s].pc = "open",
                                 ![s].new_entry = new_entry,
                                 ![s].all_feedback = Append(fb_calls[s].all_feedback,
                                                            new_entry)]
    /\ UNCHANGED <<feedback_file, fb_log, now>>
    /\ RaceFrame

\* os.makedirs and open(FEEDBACK_FILE, "w"): the file is emptied, or the
\* call fails, the file stays as it was and save_feedback returns False
OpenFile ==
    /\ \E s \in FeedbackSessions, opened \in BOOLEAN :
          /\ fb_calls[s].pc = "open"
          /\ IF opened
             THEN /\ feedback_file' = Written("")
                  /\ fb_calls' = [fb_calls EXCEPT ![s].pc = "dump"]
             ELSE /\ feedback_file' = feedback_file
                  /\ fb_calls' = [fb_calls EXCEPT ![s].pc = "done", ![s].ret = FALSE]
    /\ UNCHANGED <<fb_log, now>>
    /\ UNCHANGED <<calls, page>>
    /\ UNCHANGED <<ocr_vars, login_vars, last_ops, gf_vars, dd_vars>>

\* json.dump writes the whole text and save_feedback returns True, or
\* the writing raises after n characters, at most MaxPartialWrite of
\* them, and save_feedback returns False
DumpJson ==
    /\ \E s \in FeedbackSessions :
          /\ fb_calls[s].pc = "dump"
          /\ LET text == json_dump(fb_calls[s].all_feedback)
             IN  \E n \in (0 .. Min(MaxPartialWrite, Len(text))) \cup {Len(text)} :
                    /\ feedback_file' =
                          Written(write_from_start(feedback_file.items, text, n))
                    /\ fb_calls' = [fb_calls EXCEPT ![s].pc = "done",
                                                    ![s].ret = (n = Len(text))]
    /\ UNCHANGED <<fb_log, now>>
    /\ RaceFrame

NextFeedbackRace ==
    \/ Tick
    \/ LoadFeedback
    \/ ReadIdTime
    \/ AppendEntry
    \/ OpenFile
    \/ DumpJson

SpecFeedbackRace == InitFeedbackRace /\ [][NextFeedbackRace]_vars

\* ---------------------------------------------------------- feedback.py
\* d.get(key, default)
dict_get(d, key, default) ==
    IF \E item \in d.items : item[1] = key
    THEN (CHOOSE item \in d.items : item[1] = key)[2]
    ELSE default

\* a dict with its keys in insertion order, the order in which items()
\* yields them
OrderedDict(pairs) ==
    [ kind |-> "dict",
      items |-> { pairs[i] : i \in 1 .. Len(pairs) },
      keys |-> [i \in 1 .. Len(pairs) |-> pairs[i][1]] ]

\* Python floats are IEEE 754 doubles.  A natural number below 2^72 is
\* <<d2, d1, d0>>, its three digits in base 2^24, most significant first.
Base == 2^24
Big(n) == <<0, n \div Base, n % Base>>
Carry(x) ==
    LET s1 == x[2] + x[3] \div Base
    IN  <<x[1] + s1 \div Base, s1 % Base, x[3] % Base>>
Twice(x) == Carry(<<2 * x[1], 2 * x[2], 2 * x[3]>>)
Times(x, n) == Carry(<<n * x[1], n * x[2], n * x[3]>>)
Succ(x) == Carry(<<x[1], x[2], x[3] + 1>>)
Less(x, y) ==
    \/ x[1] < y[1]
    \/ x[1] = y[1] /\ x[2] < y[2]
    \/ x[1] = y[1] /\ x[2] = y[2] /\ x[3] < y[3]
\* x - y for y <= x
Minus(x, y) ==
    LET b0 == IF x[3] < y[3] THEN 1 ELSE 0
        t1 == x[2] - y[2] - b0
        b1 == IF t1 < 0 THEN 1 ELSE 0
    IN  <<x[1] - y[1] - b1, t1 + b1 * Base, x[3] - y[3] + b0 * Base>>
\* t * 2^n for t < 2^7 and n < 72
Shifted(t, n) ==
    LET v == t * 2^(n % 24)
    IN  IF n < 24 THEN Carry(<<0, 0, v>>)
        ELSE IF n < 48 THEN Carry(<<0, v, 0>>)
        ELSE <<v, 0, 0>>

\* a double has Precision significant bits: it is 0 (sign 0), or
\* sign * m * 2^e with 2^(Precision - 1) <= m < 2^Precision
Precision == 53
Zero == [sign |-> 0, m |-> Big(0), e |-> 0]

\* x.n / x.d * 2^x.e as n' / d' * 2^e' with d' <= n' < 2 * d', in at
\* most `steps` doublings of x.n or x.d
RECURSIVE Scaled(_, _)
Scaled(x, steps) ==
    IF steps = 0 \/ (~Less(x.n, x.d) /\ Less(x.n, Twice(x.d))) THEN x
    ELSE IF steps = 1
    THEN IF Less(x.n, x.d) THEN [n |-> Twice(x.n), d |-> x.d, e |-> x.e - 1]
         ELSE [n |-> x.n, d |-> Twice(x.d), e |-> x.e + 1]
    ELSE With(Scaled(x, steps \div 2), LAMBDA half : Scaled(half, steps - steps \div 2))

\* long division by q.d: `bits` more bits of the quotient q.m, q.r the remainder
RECURSIVE Quotient(_, _)
Quotient(q, bits) ==
    IF bits = 0 THEN q
    ELSE IF bits = 1
    THEN IF Less(Twice(q.r), q.d)
         THEN [m |-> Twice(q.m), r |-> Twice(q.r), d |-> q.d]
         ELSE [m |-> Succ(Twice(q.m)), r |-> Minus(Twice(q.r), q.d), d |-> q.d]
    ELSE With(Quotient(q, bits \div 2), LAMBDA half : Quotient(half, bits - bits \div 2))

\* s.n / s.d * 2^s.e, with s.d <= s.n < 2 * s.d, rounded to Precision bits
Rounded(s) ==
    With(Quotient([m |-> Big(1), r |-> Minus(s.n, s.d), d |-> s.d], Precision - 1),
         LAMBDA q :
            LET up == \/ Less(s.d, Twice(q.r))
                      \/ Twice(q.r) = s.d /\ q.m[3] % 2 = 1
            IN  IF up /\ Succ(q.m) = Shifted(1, Precision)
                THEN [m |-> Shifted(1, Precision - 1), e |-> s.e - Precision + 2]
                ELSE [m |-> IF up THEN Succ(q.m) ELSE q.m, e |-> s.e - Precision + 1])

\* the double nearest to n / d * 2^e, ties to the even one, for n, d > 0
\* (three limbs of 24 bits: fewer than 3 * 24 doublings)
Nearest(n, d, e) ==
    With([n |-> n, d |-> d, e |-> e],
         LAMBDA x : With(Scaled(x, 3 * 24), LAMBDA s : Rounded(s)))

\* the float of a number of marks, given in hundredths
float(hundredths) ==
    IF hundredths = 0 THEN Zero
    ELSE With(Nearest(Big(IF hundredths < 0 THEN -hundredths ELSE hundredths), Big(100), 0),
              LAMBDA r : [sign |-> IF hundredths < 0 THEN -1 ELSE 1, m |-> r.m, e |-> r.e])

\* x / y for y # 0
Divided(x, y) ==
    IF x.sign = 0 THEN Zero
    ELSE With(Nearest(x.m, y.m, x.e - y.e),
              LAMBDA r : [sign |-> x.sign * y.sign, m |-> r.m, e |-> r.e])
truediv(x, y) == With(x, LAMBDA a : With(y, LAMBDA b : Divided(a, b)))

\* x * n for a whole number n > 0
Multiplied(x, n) ==
    IF x.sign = 0 THEN Zero
    ELSE With(Nearest(Times(x.m, n), Big(1), x.e),
              LAMBDA r : [sign |-> x.sign, m |-> r.m, e |-> r.e])
mul(x, n) == With(x, LAMBDA a : Multiplied(a, n))

\* (awarded / max * 100) if max > 0 else 0
Percentage(awarded, max) ==
    IF max > 0 THEN mul(truediv(float(awarded), float(max)), 100) ELSE Zero

\* percentage >= t and percentage < t, for a whole number t > 0
AtLeast(percentage, t) ==
    /\ percentage.sign = 1
    /\ \/ percentage.e >= 0
       \/ /\ percentage.e > -Precision
          /\ ~Less(percentage.m, Shifted(t, -percentage.e))
Below(percentage, t) == ~AtLeast(percentage, t)

\* the performance level lines, without the leading symbol
Outstanding ==
    << "OUTSTANDING PERFORMANCE!",
       "You have demonstrated exceptional mastery of the subject." >>
Excellent ==
    << "EXCELLENT PERFORMANCE!",
       "You have shown strong understanding of key concepts." >>
VeryGood ==
    << "VERY GOOD PERFORMANCE!",
       "You have a solid grasp of most topics." >>
Good ==
    << "GOOD PERFORMANCE!",
       "You have demonstrated satisfactory knowledge." >>
Satisfactory ==
    << "SATISFACTORY PERFORMANCE",
       "There is room for improvement in several areas." >>
NeedsImprovement ==
    << "NEEDS IMPROVEMENT",
       "Please focus on strengthening fundamental concepts." >>

\* one iteration of the loop over evaluation_result.items(): nothing for
\* the key 'total', for a value that is not a dict and for a dict without
\* 'marks_awarded'; otherwise the key, the score line, the status and the
\* remark of the question (without its leading symbol)
question_feedback(key, value) ==
    IF key = "total" THEN <<>>
    ELSE IF value.kind = "dict" /\ (\E item \in value.items : item[1] = "marks_awarded")
    THEN LET q_max == dict_get(value, "max_marks", 0)
             q_awarded == dict_get(value, "marks_awarded", 0)
             q_percentage == Percentage(q_awarded, q_max)
             status == dict_get(value, "status", "ATTEMPTED")
         IN  << [ key |-> key,
                  score |-> [awarded |-> q_awarded, max |-> q_max,
                             percentage |-> q_percentage],
                  status |-> status,
                  remark |-> IF AtLeast(q_percentage, 80)
                             THEN "Excellent work on this question!"
                             ELSE IF AtLeast(q_percentage, 60)
                             THEN "Good attempt, minor improvements needed."
                             ELSE IF AtLeast(q_percentage, 40)
                             THEN "Fair attempt, review key concepts."
                             ELSE "Needs significant improvement." ] >>
    ELSE <<>>

\* the loop over evaluation_result.items(), from the i-th item on
RECURSIVE question_wise(_, _)
question_wise(evaluation_result, i) ==
    IF i > Len(evaluation_result.keys) THEN <<>>
    ELSE LET key == evaluation_result.keys[i]
         IN  question_feedback(key, dict_get(evaluation_result, key, None))
                 \o question_wise(evaluation_result, i + 1)

\* the first line of each block of recommendations
ReviewNotes == <<"Review lecture notes and textbook materials thoroughly">>
FocusWeakTopics == <<"Focus on topics where you scored below 70%">>
MaintainHabits == <<"Maintain your excellent study habits">>

generate_feedback_excellent_from_81(evaluation_result) ==
    LET total == dict_get(evaluation_result, "total", EmptyDict)
        total_awarded == dict_get(total, "awarded", 0)
        total_max == dict_get(total, "max", 0)
        percentage == Percentage(total_awarded, total_max)
    IN  [ score |-> [awarded |-> total_awarded, max |-> total_max,
                     percentage |-> percentage],
          level |-> IF AtLeast(percentage, 90) THEN Outstanding
                    ELSE IF AtLeast(percentage, 81) THEN Excellent
                    ELSE IF AtLeast(percentage, 70) THEN VeryGood
                    ELSE IF AtLeast(percentage, 60) THEN Good
                    ELSE IF AtLeast(percentage, 50) THEN Satisfactory
                    ELSE NeedsImprovement,
          breakdown |-> question_wise(evaluation_result, 1),
          recommendations |->
              (IF Below(percentage, 60) THEN ReviewNotes ELSE <<>>)
                  \o (IF AtLeast(percentage, 60) /\ Below(percentage, 80)
                      THEN FocusWeakTopics ELSE <<>>)
                  \o (IF AtLeast(percentage, 80) THEN MaintainHabits ELSE <<>>) ]

\* generate_feedback: the sections of the returned text, the overall
\* score, the performance level, the question-wise breakdown and the
\* recommendations
generate_feedback(evaluation_result) ==
    LET total == dict_get(evaluation_result, "total", EmptyDict)
        total_awarded == dict_get(total, "awarded", 0)
        total_max == dict_get(total, "max", 0)
        percentage == Percentage(total_awarded, total_max)
    IN  [ score |-> [awarded |-> total_awarded, max |-> total_max,
                     percentage |-> percentage],
          level |-> IF AtLeast(percentage, 90) THEN Outstanding
                    ELSE IF AtLeast(percentage, 80) THEN Excellent
                    ELSE IF AtLeast(percentage, 70) THEN VeryGood
                    ELSE IF AtLeast(percentage, 60) THEN Good
                    ELSE IF AtLeast(percentage, 50) THEN Satisfactory
                    ELSE NeedsImprovement,
          breakdown |-> question_wise(evaluation_result, 1),
          recommendations |->
              (IF Below(percentage, 60) THEN ReviewNotes ELSE <<>>)
                  \o (IF AtLeast(percentage, 60) /\ Below(percentage, 80)
                      THEN FocusWeakTopics ELSE <<>>)
                  \o (IF AtLeast(percentage, 80) THEN MaintainHabits ELSE <<>>) ]

\* results with and without 'total', 'awarded' and 'max'; 8.1 marks of 9,
\* for which the float percentage is 89.99999999999999
TotalResults ==
    { OrderedDict(<<>>), OrderedDict(<< <<"total", EmptyDict>> >>),
      OrderedDict(<< <<"total", Dict({<<"awarded", 810>>, <<"max", 900>>})>> >>) }
        \cup { OrderedDict(<< <<"total", Dict({<<"awarded", a>>})>> >>) : a \in ScoreInputs }
        \cup { OrderedDict(<< <<"total", Dict({<<"max", m>>})>> >>) : m \in MaxMarksInputs }
        \cup { OrderedDict(<< <<"total", Dict({<<"awarded", a>>, <<"max", m>>})>> >>) :
                  a \in ScoreInputs, m \in MaxMarksInputs }

\* the question of the sample of tests/test_feedback_run.py and its total
SampleQuestion ==
    Dict({ <<"max_marks", 200>>, <<"marks_awarded", 100>>, <<"status", "ATTEMPTED">>,
           <<"q_type", "theory">>,
           <<"part_details", List(<<Dict({<<"marks", 200>>, <<"awarded", 100>>})>>)>> })
SampleTotal == Dict({<<"awarded", 100>>, <<"max", 200>>})

\* a value for which isinstance(value, dict) is false: a str
NotADict == [kind |-> "str", items |-> {}]

\* the values of the question keys: questions of 5 marks with awarded
\* marks on both sides of 40, 60 and 80 percent, the sample question, a
\* question without max_marks and status, one with max_marks 0, a dict
\* without marks_awarded and a value that is not a dict
QuestionValues ==
    { Dict({<<"marks_awarded", a>>, <<"max_marks", 500>>, <<"status", "ATTEMPTED">>}) :
         a \in {175, 200, 275, 300, 375, 400} }
        \cup { SampleQuestion,
               Dict({<<"marks_awarded", 200>>}),
               Dict({<<"marks_awarded", 200>>, <<"max_marks", 0>>,
                     <<"status", "NOT ATTEMPTED">>}),
               Dict({<<"max_marks", 500>>}),
               NotADict }

\* the key of the i-th question: Q1, Q2, ...
QuestionKey(i) == "Q" \o Text(str(i))

\* results with questions, the total before them, after them or missing
QuestionResults ==
    UNION { { LET questions == [i \in 1 .. n |-> <<QuestionKey(i), values[i]>>]
                  total == << <<"total", SampleTotal>> >>
              IN  OrderedDict(IF where = "first" THEN total \o questions
                              ELSE IF where = "last" THEN questions \o total
                              ELSE questions) :
                 values \in [1 .. n -> QuestionValues],
                 where \in {"missing", "first", "last"} } :
            n \in 1 .. MaxQuestions }

EvaluationResults == TotalResults \cup QuestionResults

\* a caller is about to call generate_feedback
InitGf ==
    /\ gf_args \in EvaluationResults
    /\ gf_result = None
    /\ CallsUnused
    /\ PageUnused
    /\ OcrUnused
    /\ LoginUnused
    /\ ClockUnused
    /\ SessionUnused
    /\ FeedbackUnused
    /\ DdUnused

\* the call returns
GenerateFeedback ==
    /\ gf_args # None
    /\ gf_result = None
    /\ gf_result' = generate_feedback(gf_args)
    /\ UNCHANGED gf_args
    /\ UNCHANGED <<calls, page>>
    /\ UNCHANGED <<ocr_vars, login_vars, now, last_ops, feedback_vars, dd_vars>>

NextGf == GenerateFeedback

SpecGf == InitGf /\ [][NextGf]_vars

\* ------------------------------------------------- diagram_detection.py
\* A rendered page: whether cv2.imread loaded it, and the areas of its
\* external contours, in square pixels.
NotLoaded == [loaded |-> FALSE, contours |-> <<>>]
Loaded(contours) == [loaded |-> TRUE, contours |-> contours]

Areas == {10000, 10001, 499999, 500000}

RenderedPages ==
    {NotLoaded} \cup { Loaded(c) : c \in UNION { [1 .. n -> Areas] : n \in 0 .. MaxContours } }

is_diagram_inclusive(area) == 10000 <= area /\ area <= 500000

\* 10000 < area < 500000
is_diagram(area) == 10000 < area /\ area < 500000

\* the inner loop: the contours of one page that count as diagrams
RECURSIVE count_contours(_)
count_contours(contours) ==
    IF contours = <<>> THEN 0
    ELSE (IF is_diagram(Head(contours)) THEN 1 ELSE 0) + count_contours(Tail(contours))

\* detect_diagrams, from the rendered pages on
RECURSIVE detect_diagrams(_)
detect_diagrams(images) ==
    IF images = <<>> THEN 0
    ELSE (IF ~Head(images).loaded THEN 0 ELSE count_contours(Head(images).contours))
            + detect_diagrams(Tail(images))

\* a caller is about to call detect_diagrams on a PDF with these pages
InitDd ==
    /\ dd_args \in UNION { [1 .. n -> RenderedPages] : n \in 0 .. MaxDiagramPages }
    /\ dd_result = None
    /\ CallsUnused
    /\ PageUnused
    /\ OcrUnused
    /\ LoginUnused
    /\ ClockUnused
    /\ SessionUnused
    /\ FeedbackUnused
    /\ GfUnused

\* the call returns
DetectDiagramsCall ==
    /\ dd_result = None
    /\ dd_result' = [total_diagrams |-> detect_diagrams(dd_args)]
    /\ UNCHANGED dd_args
    /\ UNCHANGED <<calls, page>>
    /\ UNCHANGED <<ocr_vars, login_vars, now, last_ops, feedback_vars, gf_vars>>

NextDd == DetectDiagramsCall

SpecDd == InitDd /\ [][NextDd]_vars

\* ------------------------------------------------ claims: evaluation_mode
ModeReturned == am_args # None /\ am_result # None

\* C1: in mode "Lenient" with max_marks # 0, the adjusted score is
\* min(original_score + 5, max_marks) when the percentage is below 35 and
\* original_score otherwise, rounded to one decimal.
C1_LenientAdjustment ==
    (ModeReturned /\ am_args.mode = "Lenient" /\ am_args.max_marks # 0) =>
        LET o == am_args.original_score
            m == am_args.max_marks
        IN  am_result[1] = Round1(IF PercentageBelow(o, m, 35) THEN Min(o + 500, m) ELSE o)

\* a Lenient call below 35 percent whose score was raised up to max_marks
C1_Witness ==
    /\ ModeReturned
    /\ am_args.mode = "Lenient"
    /\ am_args.max_marks > 0
    /\ PercentageBelow(am_args.original_score, am_args.max_marks, 35)
    /\ am_result[1] = am_args.max_marks
    /\ am_result[1] > am_result[2]

\* C2: in mode "Strict" with max_marks # 0, the adjusted score is
\* max(original_score - 5, 0) when the percentage is above 80 and
\* original_score otherwise, rounded to one decimal.
C2_StrictAdjustment ==
    (ModeReturned /\ am_args.mode = "Strict" /\ am_args.max_marks # 0) =>
        LET o == am_args.original_score
            m == am_args.max_marks
        IN  am_result[1] = Round1(IF PercentageAbove(o, m, 80) THEN Max(o - 500, 0) ELSE o)

\* a Strict call above 80 percent whose score was lowered down to 0
C2_Witness ==
    /\ ModeReturned
    /\ am_args.mode = "Strict"
    /\ am_args.max_marks > 0
    /\ PercentageAbove(am_args.original_score, am_args.max_marks, 80)
    /\ am_args.original_score > 0
    /\ am_result[1] = 0

\* C3: in every mode other than "Lenient" and "Strict" the adjusted score
\* equals the returned original score and the third component is the mode
\* passed in, for every max_marks (0 included).
C3_ModerateDoesNothing ==
    (ModeReturned /\ am_args.mode \notin {"Lenient", "Strict"}) =>
        /\ am_result[1] = am_result[2]
        /\ am_result[3] = am_args.mode

\* a Moderate call on a score that the Lenient mode would have raised
C3_Witness ==
    /\ ModeReturned
    /\ am_args.mode = "Moderate"
    /\ am_args.max_marks > 0
    /\ PercentageBelow(am_args.original_score, am_args.max_marks, 35)
    /\ am_result[1] = am_result[2]

\* ------------------------------------------------ claims: evaluation page
HasKey(d, key) == \E item \in d.items : item[1] = key
Get(d, key) == (CHOOSE item \in d.items : item[1] = key)[2]

\* the last run wrote a record and its grading model returned a total score
GradedWithScore ==
    /\ run.wrote
    /\ run.prompts # <<>>
    /\ run.model.kind = "parts"
    /\ HasKey(parse_ai_response(run.model.text).value.analytics, "total_score")

\* C4: the total score an evaluation stores and displays is the score the
\* grading model returned, adjusted by apply_evaluation_mode for the
\* selected mode.
C4_StoredScoreIsAdjusted ==
    GradedWithScore =>
        LET given == Get(parse_ai_response(run.model.text).value.analytics, "total_score")
            adjusted == apply_evaluation_mode(Get(given, "awarded"), Get(given, "max"),
                                              run.mode)[1]
        IN  /\ Get(Get(scores[run.usn].analytics_data, "total_score"), "awarded") = adjusted
            /\ Get(Get(session_state.evaluation_analytics, "total_score"), "awarded") = adjusted

\* C5: the steps a run has executed are an initial part of the pipeline
\* order (save the three PDFs, convert them, OCR them, detect diagrams,
\* grade, write the record), and a run in which a step raised has executed
\* no step after it.
C5_StepsInOrder ==
    /\ Len(run.steps) <= Len(PipelineOrder)
    /\ run.steps = SubSeq(PipelineOrder, 1, Len(run.steps))
    /\ pc # "idle" => pc = PipelineOrder[Len(run.steps) + 1]
    /\ run.exc # NoExc => (pc = "idle" /\ Len(run.steps) = run.exc_at)

\* a run that got through saving, converting and OCR and then stopped at
\* detect_diagrams, which raised
C5_Witness ==
    /\ pc = "idle"
    /\ run.exc # NoExc
    /\ run.steps = SubSeq(PipelineOrder, 1, 10)
    /\ Len(run.texts) = 3

UploadNotSaved == \E i \in 1 .. Len(run.saved) : ~run.saved[i]

\* C6: a run in which a step raised, or in which an upload could not be
\* saved, shows an error, does not set evaluation_complete and writes no
\* record.
C6_FailedRunStoresNothing ==
    (run.exc # NoExc \/ UploadNotSaved) =>
        /\ run.ui_errors # <<>>
        /\ ~run.set_complete
        /\ ~run.wrote
        /\ "grade" \notin { run.steps[i] : i \in 1 .. Len(run.steps) }

\* a second run that raised after a first one completed: the record and
\* the flag of the first run are still there, the second wrote nothing
C6_Witness ==
    /\ pc = "idle"
    /\ runs = 2
    /\ run.exc # NoExc
    /\ session_state.evaluation_complete
    /\ scores[run.usn] # None
    /\ ~run.wrote

\* ------------------------------------------------ claims: parse_ai_response
ParseEnded == parsed # None

\* a fenced json block in the Markdown sense: a line "<fence>json", a body
\* free of fences, and a closing "<fence>" at the start of a line
FencedBlocks(raw) ==
    { b \in (1 .. Len(raw)) \X (1 .. Len(raw)) :
        /\ OccursAt(raw, b[1], <<FENCE, JSON, NL>>)
        /\ b[2] - 1 > b[1] + 2
        /\ OccursAt(raw, b[2] - 1, <<NL, FENCE>>)
        /\ \A i \in (b[1] + 3) .. (b[2] - 2) : raw[i] # FENCE }
BlockBody(raw, b) == SubSeq(raw, b[1] + 3, b[2] - 2)
\* the blocks whose body is a valid JSON object
ValidBlocks(raw) ==
    { b \in FencedBlocks(raw) :
        /\ json_loads(BlockBody(raw, b)).exc = NoExc
        /\ json_loads(BlockBody(raw, b)).value.kind = "dict" }
FirstBlock(B) == CHOOSE b \in B : \A c \in B : b[1] <= c[1]
Without(raw, b) == SubSeq(raw, 1, b[1] - 1) \o SubSeq(raw, b[2] + 1, Len(raw))

\* C7 as stated: whenever raw_text contains a fenced json block holding
\* a valid JSON object, analytics is the parsed content of the first such block and
\* report is raw_text with that block removed, stripped.
C7_AnyValidBlock ==
    (ParseEnded /\ ValidBlocks(raw_text) # {}) =>
        LET b == FirstBlock(ValidBlocks(raw_text))
        IN  /\ parsed.exc = NoExc
            /\ parsed.value.analytics = json_loads(BlockBody(raw_text, b)).value
            /\ parsed.value.report = strip(Without(raw_text, b))

\* the first match of the pattern "<fence>json\n{...}\n<fence>" holds
\* valid JSON
FirstMatchValid(raw) ==
    /\ re_search(raw) # None
    /\ json_loads(SubSeq(raw, re_search(raw).start + 3, re_search(raw).end - 2)).exc = NoExc

\* C7 (amended): when the pattern "<fence>json\n{...}\n<fence>" occurs and
\* the braces of its first, shortest match hold valid JSON, analytics is
\* the parsed content of that match and report is raw_text with every
\* occurrence of the matched block removed, stripped.
C7_FirstMatchValid ==
    (ParseEnded /\ FirstMatchValid(raw_text)) =>
        LET m == re_search(raw_text)
        IN  /\ parsed.exc = NoExc
            /\ parsed.value.analytics = json_loads(SubSeq(raw_text, m.start + 3, m.end - 2)).value
            /\ parsed.value.report = strip(str_remove(raw_text, SubSeq(raw_text, m.start, m.end)))

\* a response whose block was parsed and cut out of a longer text, with
\* whitespace stripped off the rest
C7_Witness ==
    /\ ParseEnded
    /\ FirstMatchValid(raw_text)
    /\ parsed.value.analytics # EmptyDict
    /\ parsed.value.report # <<>>
    /\ Len(parsed.value.report) < Len(raw_text) - (re_search(raw_text).end - re_search(raw_text).start + 1)

\* C8: parse_ai_response never raises and returns a dict with exactly the
\* keys report and analytics; when raw_text has no fenced json block, or no
\* block of it holds a valid JSON object, report is raw_text unchanged and analytics
\* is the empty dict.
C8_ParseFallback ==
    ParseEnded =>
        /\ parsed.exc = NoExc
        /\ DOMAIN parsed.value = {"report", "analytics"}
        /\ (ValidBlocks(raw_text) = {}) =>
               /\ parsed.value.report = raw_text
               /\ parsed.value.analytics = EmptyDict

\* a response with a json block that is matched but is not valid JSON,
\* surrounded by whitespace that the report keeps
C8_Witness ==
    /\ ParseEnded
    /\ re_search(raw_text) # None
    /\ FencedBlocks(raw_text) # {}
    /\ ValidBlocks(raw_text) = {}
    /\ Head(raw_text) \in Whitespace
    /\ parsed.value.report = raw_text

\* ------------------------------------------------ claims: grade_answers
GradeEnded == g_result # None

\* C9: grade_answers never raises; with a missing API key (or a key
\* genai.configure refuses), a response without parts or a raising model
\* call it returns a dict with the keys report and analytics, the report
\* an error string and analytics empty; with a missing API key the grading
\* model is not called.
C9_GradeNeverRaises ==
    GradeEnded =>
        LET out == g_result.out
            configured == initialize_gemini(g_args.api_key, g_result.configure).ret
            failed == ~configured \/ g_result.model.kind \in {"raises", "no_parts"}
        IN  /\ out.exc = NoExc
            /\ DOMAIN out.value = {"report", "analytics"}
            /\ failed =>
                  /\ out.value.analytics = EmptyDict
                  /\ \/ out.value.report = <<"API Key configuration failed.">>
                     \/ /\ Len(out.value.report) >= 2
                        /\ Head(out.value.report) = "Error (Grading): "
            /\ (g_args.api_key = "") => out.prompts = <<>>
            /\ configured => Len(out.prompts) = 1

\* a call with a key whose model response had no parts and no candidates
C9_Witness ==
    /\ GradeEnded
    /\ g_args.api_key # ""
    /\ g_result.configure.kind = "returns"
    /\ g_result.model.kind = "no_parts"
    /\ g_result.model.candidates = <<>>
    /\ g_result.out.value.report = <<"Error (Grading): ", "Grading failed. Reason: ", "Unknown">>

\* C10: the philosophy placed in the prompt is the generous one for mode
\* "Lenient", the precise one for "Strict" and the balanced one for every
\* other mode.
C10_PhilosophyByMode ==
    (GradeEnded /\ g_result.out.prompts # <<>>) =>
        LET prompt == g_result.out.prompts[1]
        IN  /\ prompt.mode = g_args.mode
            /\ (g_args.mode = "Lenient") => prompt.philosophy_text = Generous
            /\ (g_args.mode = "Strict") => prompt.philosophy_text = Precise
            /\ (g_args.mode \notin {"Lenient", "Strict"}) => prompt.philosophy_text = Balanced

\* a Strict call that reached the grading model with the precise text
C10_Witness ==
    /\ GradeEnded
    /\ g_args.mode = "Strict"
    /\ g_result.out.prompts # <<>>
    /\ g_result.out.prompts[1].philosophy_text = Precise


\* ------------------------------------------------ claims: extract_text_from_images
OcrReturned == ocr_args # None /\ ocr_result # None

\* the segment the claim gives page number p (1-based) for what the OCR
\* model did
PageSegment(p, model) ==
    CASE model.kind = "parts" -> model.text
      [] model.kind = "no_parts" ->
            <<"[Page ">> \o str(p) \o <<" OCR Failed: ">>
                \o <<IF model.candidates = <<>> THEN "Unknown" ELSE model.candidates[1]>>
                \o <<"]">>
      [] model.kind = "raises" ->
            <<"[Page ">> \o str(p) \o <<" OCR Error: ", model.message, "]">>

\* C11: with a valid API key, extract_text_from_images requests every
\* input image once, in input order, whatever happened to earlier pages,
\* and returns one segment per image joined by newlines: the model's text,
\* or a "[Page p OCR Failed: ...]" / "[Page p OCR Error: ...]" placeholder
\* with the 1-based page number p; no images give the empty string.
C11_OneSegmentPerPage ==
    (OcrReturned /\ initialize_gemini(ocr_args.api_key, ocr_args.configure).ret) =>
        LET images == ocr_args.images_base64
        IN  /\ Len(ocr_pages) = Len(images)
            /\ \A p \in 1 .. Len(images) : ocr_pages[p].data = images[p]
            /\ ocr_result.ret = join(<<NL>>, [p \in 1 .. Len(images) |->
                                                 PageSegment(p, ocr_pages[p].model)])
            /\ images = <<>> => ocr_result.ret = <<>>

\* a failed first page followed by a page whose text was extracted
C11_Witness ==
    /\ OcrReturned
    /\ Len(ocr_pages) = 2
    /\ ocr_pages[1].model.kind = "raises"
    /\ ocr_pages[2].model.kind = "parts"
    /\ ocr_result.ret = <<"[Page ", "1", " OCR Error: ", "429 quota exceeded", "]", NL,
                          "Q1. Define a process.">>


\* ------------------------------------------------ claims: login
Registering == login_ret # None /\ login_ret.op = "register_user"
Authenticating == login_ret # None /\ login_ret.op = "authenticate_user"

\* C12: register_user on a stored username returns (False, "Username
\* already exists") and leaves the users file as it was; on a new username
\* it returns (True, "Registration successful") and the file holds the
\* former users unchanged plus that one user.
C12_RegisterOnce ==
    Registering =>
        LET u == login_ret.username
            before == login_ret.before
        IN  IF u \in DOMAIN before
            THEN /\ ~login_ret.ret.success
                 /\ login_ret.ret.result = "Username already exists"
                 /\ users = before
            ELSE /\ login_ret.ret.success
                 /\ login_ret.ret.result = "Registration successful"
                 /\ DOMAIN users = (DOMAIN before) \cup {u}
                 /\ \A v \in DOMAIN before : users[v] = before[v]
                 /\ users[u].email = login_ret.email
                 /\ users[u].role = login_ret.role

\* a registration refused for a stored username, with another password
C12_Witness ==
    /\ Registering
    /\ login_ret.username \in DOMAIN login_ret.before
    /\ registered[login_ret.username] # login_ret.password
    /\ ~login_ret.ret.success

\* C13: authenticate_user(u, p) returns (True, the stored record of u)
\* exactly when u was registered and p is the password of that
\* registration; (False, "User not found") when u was never registered,
\* (False, "Invalid password") when u was registered with another password.
C13_AuthenticateIffRegistered ==
    Authenticating =>
        LET u == login_ret.username
            p == login_ret.password
            ret == login_ret.ret
        IN  /\ ret.success <=> (u \in DOMAIN registered /\ registered[u] = p)
            /\ ret.success => ret.result = users[u]
            /\ u \notin DOMAIN registered =>
                  (~ret.success /\ ret.result = "User not found")
            /\ (u \in DOMAIN registered /\ registered[u] # p) =>
                  (~ret.success /\ ret.result = "Invalid password")

\* a login refused for the stored digest given as the password, after a
\* second registration of the username was refused
C13_Witness ==
    /\ Authenticating
    /\ login_ret.username \in DOMAIN registered
    /\ registered[login_ret.username] = "secret"
    /\ login_ret.password = users[login_ret.username].password
    /\ ~login_ret.ret.success
    /\ now >= 2

\* C14: the password field of every stored record is the SHA-256 digest of
\* the password the user registered with, and is not that password.
C14_OnlyDigestsStored ==
    \A u \in DOMAIN users :
        /\ u \in DOMAIN registered
        /\ users[u].password = Sha256Hex(registered[u])
        /\ users[u].password # registered[u]

\* two users registered with the same password
C14_Witness ==
    /\ DOMAIN users = Usernames
    /\ \A u \in Usernames : registered[u] = "hunter2"


\* ------------------------------------------------ claims: logout
\* the Evaluation Report tab of the teacher pages shows a report
ReportShown ==
    /\ TeacherView(session_state)
    /\ HasSessionKey(session_state, "evaluation_complete")
    /\ session_state.evaluation_complete

\* C15: right after logout() is_logged_in() is False and the keys
\* logged_in, username, user_data, role, evaluation_complete,
\* evaluation_report, evaluation_data, evaluation_analytics are absent;
\* after the script run that follows, the evaluation keys hold their empty
\* defaults; and a report is shown only if an evaluation stored it after
\* the last logout.
C15_LogoutClearsEvaluation ==
    /\ last_ops.last = "logout" =>
          /\ ~is_logged_in(session_state)
          /\ \A key \in { "logged_in", "username", "user_data", "role",
                          "evaluation_complete", "evaluation_report",
                          "evaluation_data", "evaluation_analytics" } :
                ~HasSessionKey(session_state, key)
    /\ (last_ops.prev = "logout" /\ last_ops.last # "logout") =>
          /\ session_state.evaluation_complete = FALSE
          /\ session_state.evaluation_report = <<>>
          /\ session_state.evaluation_data = EmptyDict
          /\ session_state.evaluation_analytics = EmptyDict
    /\ ReportShown => last_ops.graded

\* the run of main() after a logout that found a report in the session
C15_Witness ==
    /\ last_ops.prev = "logout"
    /\ last_ops.last = "main"
    /\ last_ops.dropped = <<"report A">>
    /\ session_state.question_text # <<>>


\* ------------------------------------------------ claims: save_feedback
\* the entry carries the arguments of the call
EntryOf(entry, call) ==
    /\ entry.usn = call.usn
    /\ entry.role = call.role
    /\ entry.rating = call.rating
    /\ entry.comment = call.comment
    /\ entry.subject = call.subject

\* C16: after a save_feedback call that returned True, load_feedback
\* returns the list it returned before the call followed by one entry
\* carrying the call's usn, role, rating, comment and subject; and when
\* every call so far returned True, the stored list has one entry per call,
\* in call order.
C16_SaveAppendsOne ==
    LET stored == load_feedback(feedback_file)
        n == Len(fb_log)
    IN  /\ (n > 0 /\ fb_log[n].ret) =>
              /\ Len(stored) = Len(fb_log[n].before) + 1
              /\ SubSeq(stored, 1, Len(stored) - 1) = fb_log[n].before
              /\ EntryOf(stored[Len(stored)], fb_log[n])
        /\ (\A i \in 1 .. n : fb_log[i].ret) =>
              /\ Len(stored) = n
              /\ \A i \in 1 .. n : EntryOf(stored[i], fb_log[i])

\* three successful saves, of different students
C16_Witness ==
    /\ Len(fb_log) = 3
    /\ \A i \in 1 .. 3 : fb_log[i].ret
    /\ fb_log[1].usn # fb_log[2].usn
    /\ Len(load_feedback(feedback_file)) = 3


\* ------------------------------------------------ claims: generate_feedback
GfReturned == gf_args # None /\ gf_result # None

\* total.awarded and total.max of the argument, 0 when missing
GfAwarded ==
    IF HasKey(gf_args, "total") /\ HasKey(Get(gf_args, "total"), "awarded")
    THEN Get(Get(gf_args, "total"), "awarded") ELSE 0
GfMax ==
    IF HasKey(gf_args, "total") /\ HasKey(Get(gf_args, "total"), "max")
    THEN Get(Get(gf_args, "total"), "max") ELSE 0

LevelHeadlines ==
    { "OUTSTANDING PERFORMANCE!", "EXCELLENT PERFORMANCE!", "VERY GOOD PERFORMANCE!",
      "GOOD PERFORMANCE!", "SATISFACTORY PERFORMANCE", "NEEDS IMPROVEMENT" }

\* the level of a percentage
LevelOf(percentage) ==
    IF AtLeast(percentage, 90) THEN "OUTSTANDING PERFORMANCE!"
    ELSE IF AtLeast(percentage, 80) THEN "EXCELLENT PERFORMANCE!"
    ELSE IF AtLeast(percentage, 70) THEN "VERY GOOD PERFORMANCE!"
    ELSE IF AtLeast(percentage, 60) THEN "GOOD PERFORMANCE!"
    ELSE IF AtLeast(percentage, 50) THEN "SATISFACTORY PERFORMANCE"
    ELSE "NEEDS IMPROVEMENT"

\* C17: generate_feedback computes the percentage as the float
\* total.awarded / total.max * 100 when total.max > 0 and as 0 otherwise,
\* also when 'total' or one of its fields is missing, and emits exactly
\* one performance level for it: OUTSTANDING from 90, EXCELLENT from 80,
\* VERY GOOD from 70, GOOD from 60, SATISFACTORY from 50, NEEDS
\* IMPROVEMENT below 50.
C17_OneLevelByPercentage ==
    GfReturned =>
        LET percentage == gf_result.score.percentage
            emitted == { i \in 1 .. Len(gf_result.level) :
                            gf_result.level[i] \in LevelHeadlines }
        IN  /\ percentage = IF GfMax > 0
                            THEN mul(truediv(float(GfAwarded), float(GfMax)), 100)
                            ELSE Zero
            /\ Cardinality(emitted) = 1
            /\ \A i \in emitted : gf_result.level[i] = LevelOf(percentage)

\* 9 of 10 marks: exactly 90 percent is OUTSTANDING
C17_Witness ==
    /\ GfReturned
    /\ GfAwarded = 900
    /\ GfMax = 1000
    /\ gf_result.level[1] = "OUTSTANDING PERFORMANCE!"


\* ------------------------------------------------ claims: detect_diagrams
DdReturned == dd_result # None

\* the contours, by page and position, of the pages that loaded
LoadedContours ==
    { c \in (1 .. Len(dd_args)) \X (1 .. MaxContours + 1) :
         /\ dd_args[c[1]].loaded
         /\ c[2] <= Len(dd_args[c[1]].contours) }

\* C18: detect_diagrams returns the number of external contours, over all
\* rendered pages that loaded, whose area is strictly greater than 10000
\* and strictly less than 500000; a page that fails to load counts 0 and
\* the pages after it are still counted.
C18_CountsContoursInRange ==
    DdReturned =>
        dd_result.total_diagrams =
            Cardinality({ c \in LoadedContours :
                             /\ dd_args[c[1]].contours[c[2]] > 10000
                             /\ dd_args[c[1]].contours[c[2]] < 500000 })

\* a page that failed to load, followed by a page with one diagram and one
\* contour of area 500000
C18_Witness ==
    /\ DdReturned
    /\ Len(dd_args) = 2
    /\ ~dd_args[1].loaded
    /\ dd_args[2].contours = <<10001, 500000>>
    /\ dd_result.total_diagrams = 1


\* ------------------------------------------------ claims: grading on the page
\* C19: a run sets evaluation_complete and writes the record of the
\* student only if the grading model returned a response with content; a
\* run whose grading failed (the API raised, or the response was blocked
\* or empty) stores nothing.
C19_RecordOnlyWhenGraded ==
    (run.set_complete \/ run.wrote) => (run.prompts # <<>> /\ run.model.kind = "parts")

\* C20: on the evaluation page the mode "Easygoing" puts the generous
\* philosophy text into the prompt, "Stringent" the precise one and
\* "Reasonable" the balanced one.
C20_PhilosophyByUiMode ==
    run.prompts # <<>> =>
        LET prompt == run.prompts[1]
        IN  /\ run.mode = "Easygoing" => prompt.philosophy_text = Generous
            /\ run.mode = "Stringent" => prompt.philosophy_text = Precise
            /\ run.mode = "Reasonable" => prompt.philosophy_text = Balanced


\* ------------------------------------------------ claims: concurrent save_feedback
BothSaved ==
    /\ fb_calls # None
    /\ \A s \in FeedbackSessions : fb_calls[s].pc = "done" /\ fb_calls[s].ret = TRUE

\* C21: when the save_feedback calls of two concurrent sessions both
\* returned True, the feedback file holds the entries of both calls.
C21_NoLostUpdate ==
    BothSaved =>
        LET stored == load_feedback(feedback_file)
        IN  \A s \in FeedbackSessions :
               \E i \in 1 .. Len(stored) : stored[i] = fb_calls[s].new_entry


\* ------------------------------------------------ claims: the session after failed runs
\* C22: when no run is in progress and the report tabs are shown
\* (evaluation_complete), the texts, the diagram count and the report with
\* its analytics in the session were all stored by the same run.
C22_SessionFromOneRun ==
    (pc = "idle" /\ session_state.evaluation_complete) =>
        /\ run.origin.texts = run.origin.report
        /\ run.origin.diagram_count = run.origin.report

\* ------------------------------------------------ claims: ranking of adjusted scores
\* C23: for every mode and every max_marks > 0, the adjusted score of a call
\* on a score b in [0, max_marks] lies in [0, max_marks] and is not below the
\* adjusted score of any score a with 0 <= a <= b.
C23_RankingPreserved ==
    (/\ ModeReturned
     /\ am_args.max_marks > 0
     /\ 0 <= am_args.original_score
     /\ am_args.original_score <= am_args.max_marks) =>
        /\ 0 <= am_result[1]
        /\ am_result[1] <= am_args.max_marks
        /\ \A a \in ScoreInputs :
              (0 <= a /\ a <= am_args.original_score) =>
                  apply_evaluation_mode(a, am_args.max_marks, am_args.mode)[1] <= am_result[1]

====
